---- MODULE Spec2Model ----
(***************************************************************************)
(* A model of the backend of chanthr.github.io: the return predictor and   *)
(* its process-wide cache (predictor.py, predict_agent.py, api.py), the    *)
(* ratio extraction (finance_agent.py) and the news engine (news_agent.py).*)
(* Each engine has its own specification over the shared variables; the    *)
(* variables of the other engines stay at their initial values.            *)
(***************************************************************************)
EXTENDS Integers, Sequences, FiniteSets, TLC

(***************************************************************************)
(* Bounds of the model.                                                    *)
(***************************************************************************)
\* the clock runs over 0..MaxClock whole seconds
MaxClock == 1
\* at most MaxCalls calls of predict_one are made
MaxCalls == 2

\* PRED_TTL_SEC: the cache's time to live, in seconds (predictor.py:17 reads it
\* from the environment, 900 by default; the model runs with PRED_TTL_SEC=1)
_TTL == 1

Symbols == {"AAA", "BBB"}
Threads == {"t1", "t2"}
\* who called predict_one: the /predict endpoint (api.py), predict_agent.predict
\* (always force=False), or predict_batch as batch_job.py runs it (force=True)
Callers == {"api", "agent", "batch"}
\* what the live-price lookup returns: None or a price
LivePrices == {"None", "p1"}

(***************************************************************************)
(* State of the predictor cache (predictor.py).                            *)
(***************************************************************************)
VARIABLES
    clock,      \* int(time.time()): whole seconds
    heap,       \* the result dicts built so far, by identity (1..Len(heap))
    CACHE,      \* _CACHE: symbol -> identity of its dict, 0 when absent
    CACHE_FILE, \* the JSON file: symbol -> a copy of a dict, or NoEntry
    pc,         \* each request's position in predict_one and its caller
    req,        \* each request's arguments and locals
    hist,       \* per request: what was the case when predict_one was called
    calls,      \* the number of calls of predict_one made so far
    pred,       \* the last prediction computed: its inputs and its outcome
    ratio,      \* the last ratio extraction: the statements and its outcome
    news        \* the last news analysis: the sources and its outcome

cacheVars == <<clock, heap, CACHE, CACHE_FILE, pc, req, hist, calls>>
vars == <<clock, heap, CACHE, CACHE_FILE, pc, req, hist, calls, pred, ratio, news>>

NoEntry == [symbol |-> "none", ts |-> 0, data |-> 0, live_price |-> "absent"]

\* the dict _predict_core returns, lines 80-87: d stands for the prices it
\* downloaded, on which last_close, pred_ret_1d, pred_close_1d and signal
\* depend; live_price is the key the callers add
NewResult(s, d, t) == [symbol |-> s, ts |-> t, data |-> d, live_price |-> "absent"]

IdleReq == [symbol |-> "none", force |-> FALSE, out |-> 0, allc |-> [s \in Symbols |-> NoEntry]]
IdleHist == [prev |-> 0, prevTs |-> 0, fresh |-> FALSE, ranCore |-> FALSE]

\* a dict that neither _CACHE nor a request's local refers to is unreachable:
\* the interpreter frees it, and its slot of the heap is cleared
Collect(h, cache, rq) ==
    [i \in DOMAIN h |->
        IF (\E s \in Symbols : cache[s] = i) \/ (\E t \in Threads : rq[t].out = i)
        THEN h[i] ELSE NoEntry]

\* the engines that are not running
IdlePred == [in |-> [entry |-> "none"], out |-> [status |-> "none"]]
IdleRatio == [entry |-> "none"]
IdleNews == [entry |-> "none"]

Init ==
    /\ clock = 0
    /\ heap = <<>>
    /\ CACHE = [s \in Symbols |-> 0]
    /\ CACHE_FILE = [s \in Symbols |-> NoEntry]
    /\ pc = [t \in Threads |-> "idle"]
    /\ req = [t \in Threads |-> IdleReq]
    /\ hist = [t \in Threads |-> IdleHist]
    /\ calls = 0
    /\ pred = IdlePred /\ ratio = IdleRatio /\ news = IdleNews

\* a slip in line 91: an entry is taken as expired one second too early
CacheHitEarlyExpiry(s, f, nw) ==
    /\ ~f
    /\ CACHE[s] # 0
    /\ nw - heap[CACHE[s]].ts < _TTL - 1

\* a test of line 91 that leaves the age of the entry out
CacheHitWhateverAge(s, f, nw) ==
    /\ ~f
    /\ CACHE[s] # 0

\* predict_one line 91, the condition of the early return
CacheHit(s, f, nw) ==
    /\ ~f
    /\ CACHE[s] # 0
    /\ nw - heap[CACHE[s]].ts < _TTL

\* time passes
Tick ==
    /\ clock < MaxClock
    /\ clock' = clock + 1
    /\ UNCHANGED <<pred, ratio, news, heap, CACHE, CACHE_FILE, pc, req, hist, calls>>

\* how the callers call predict_one: api.py:134 passes the request's force,
\* predict_agent.py:47 force=False, batch_job.py:7 force=True
CallerForce(c, f) ==
    CASE c = "agent" -> ~f
      [] c = "batch" -> f
      [] OTHER -> TRUE

\* predict_one lines 90-92: the clock is read, the entry is tested and, on a
\* hit, the cached dict itself is returned. The three lines read one entry of
\* _CACHE, which is only ever replaced by a later one, so they are taken as one
\* step. On a miss the request goes on to _predict_core.
Call(t, s, f) ==
    /\ pc[t] = "idle"
    /\ calls < MaxCalls
    /\ calls' = calls + 1
    /\ hist' = [hist EXCEPT ![t] =
                  [prev |-> CACHE[s],
                   prevTs |-> IF CACHE[s] # 0 THEN heap[CACHE[s]].ts ELSE 0,
                   fresh |-> (CACHE[s] # 0 /\ clock - heap[CACHE[s]].ts < _TTL),
                   ranCore |-> FALSE]]
    /\ IF CacheHit(s, f, clock)
       THEN /\ pc' = [pc EXCEPT ![t] = "ret"]
            /\ req' = [req EXCEPT ![t] = [IdleReq EXCEPT !.symbol = s, !.force = f,
                                             !.out = CACHE[s]]]
       ELSE /\ pc' = [pc EXCEPT ![t] = "core"]
            /\ req' = [req EXCEPT ![t] = [IdleReq EXCEPT !.symbol = s, !.force = f]]
    /\ UNCHANGED <<pred, ratio, news, clock, heap, CACHE, CACHE_FILE>>

\* line 93: _predict_core returns a new dict stamped int(time.time())
CoreDone(t) ==
    /\ pc[t] = "core"
    /\ heap' = Append(heap, NewResult(req[t].symbol, Len(heap) + 1, clock))
    /\ req' = [req EXCEPT ![t].out = Len(heap) + 1]
    /\ hist' = [hist EXCEPT ![t].ranCore = TRUE]
    /\ pc' = [pc EXCEPT ![t] = "store"]
    /\ UNCHANGED <<pred, ratio, news, clock, CACHE, CACHE_FILE, calls>>

\* a failure of line 93 that also forgets the entry of the symbol
CoreRaiseDroppingEntry(t) ==
    /\ pc[t] = "core"
    /\ pc' = [pc EXCEPT ![t] = "raised"]
    /\ CACHE' = [CACHE EXCEPT ![req[t].symbol] = 0]
    /\ heap' = Collect(heap, CACHE', req)
    /\ UNCHANGED <<pred, ratio, news, clock, CACHE_FILE, req, hist, calls>>

\* line 93: _predict_core raises (no price, not enough data); nothing of
\* predict_one catches it, and the exception leaves the function
CoreRaise(t) ==
    /\ pc[t] = "core"
    /\ pc' = [pc EXCEPT ![t] = "raised"]
    /\ UNCHANGED <<pred, ratio, news, clock, heap, CACHE, CACHE_FILE, req, hist, calls>>

\* the caller's except clause takes over: api.py:137-141 answers with the
\* error, predict_agent.py:48-49 turns to its own fallback
Handle(t) ==
    /\ pc[t] = "raised"
    /\ pc' = [pc EXCEPT ![t] = "idle"]
    /\ req' = [req EXCEPT ![t] = IdleReq]
    /\ hist' = [hist EXCEPT ![t] = IdleHist]
    /\ UNCHANGED <<pred, ratio, news, clock, heap, CACHE, CACHE_FILE, calls>>

\* line 94: _CACHE[symbol] = out
Store(t) ==
    /\ pc[t] = "store"
    /\ CACHE' = [CACHE EXCEPT ![req[t].symbol] = req[t].out]
    /\ heap' = Collect(heap, CACHE', req)
    /\ pc' = [pc EXCEPT ![t] = "fread"]
    /\ UNCHANGED <<pred, ratio, news, clock, CACHE_FILE, req, hist, calls>>

\* lines 96-99: allc = the file's content, {} when there is no file
FileRead(t) ==
    /\ pc[t] = "fread"
    /\ req' = [req EXCEPT ![t].allc = CACHE_FILE]
    /\ pc' = [pc EXCEPT ![t] = "fwrite"]
    /\ UNCHANGED <<pred, ratio, news, clock, heap, CACHE, CACHE_FILE, hist, calls>>

\* lines 100-102: allc[symbol] = out; the file is rewritten from allc
FileWrite(t) ==
    /\ pc[t] = "fwrite"
    /\ CACHE_FILE' = [req[t].allc EXCEPT ![req[t].symbol] = heap[req[t].out]]
    /\ req' = [req EXCEPT ![t].allc = IdleReq.allc]
    /\ pc' = [pc EXCEPT ![t] = "ret"]
    /\ UNCHANGED <<pred, ratio, news, clock, heap, CACHE, hist, calls>>

\* lines 103-104: an error of the file system is swallowed
FileFail(t) ==
    /\ pc[t] \in {"fread", "fwrite"}
    /\ req' = [req EXCEPT ![t].allc = IdleReq.allc]
    /\ pc' = [pc EXCEPT ![t] = "ret"]
    /\ UNCHANGED <<pred, ratio, news, clock, heap, CACHE, CACHE_FILE, hist, calls>>

\* what the caller does with the dict predict_one returned:
\* api.py:135 out["live_price"] = _live_price(sym), always;
\* predict_agent.py:55-57 p["live_price"] = ... only when a price came back;
\* predictor.py:108 predict_batch keeps it as it is
AfterReturn(c, obj, live) ==
    CASE c = "api" -> [obj EXCEPT !.live_price = live]
      [] c = "agent" -> IF live # "None" THEN [obj EXCEPT !.live_price = live] ELSE obj
      [] OTHER -> obj

\* predict_one has returned to caller c, one of those that call it with this
\* force (who the caller is changes nothing before this step)
Respond(t, c, live) ==
    /\ pc[t] = "ret"
    /\ CallerForce(c, req[t].force)
    /\ req' = [req EXCEPT ![t] = IdleReq]
    /\ heap' = Collect([heap EXCEPT ![req[t].out] = AfterReturn(c, @, live)], CACHE, req')
    /\ pc' = [pc EXCEPT ![t] = "idle"]
    /\ hist' = [hist EXCEPT ![t] = IdleHist]
    /\ UNCHANGED <<pred, ratio, news, clock, CACHE, CACHE_FILE, calls>>

CacheNext ==
    \/ Tick
    \/ \E t \in Threads, s \in Symbols, f \in BOOLEAN : Call(t, s, f)
    \/ \E t \in Threads : CoreDone(t)
    \/ \E t \in Threads : CoreRaise(t)
    \/ \E t \in Threads : Handle(t)
    \/ \E t \in Threads : Store(t)
    \/ \E t \in Threads : FileRead(t)
    \/ \E t \in Threads : FileWrite(t)
    \/ \E t \in Threads : FileFail(t)
    \/ \E t \in Threads, c \in Callers, live \in LivePrices : Respond(t, c, live)

(***************************************************************************)
(* The claims about the cache.                                             *)
(***************************************************************************)

\* C1: a predict_one call with force=false made while the symbol's entry is
\* younger than the TTL returns that very entry - the same dict, hence the
\* same ts and the same fields as the call that built it returned - and does
\* not run _predict_core
C1_CachedCallReturnsSameResult ==
    \A t \in Threads :
        (pc[t] = "ret" /\ ~req[t].force /\ hist[t].fresh) =>
            /\ ~hist[t].ranCore
            /\ req[t].out = hist[t].prev
            /\ heap[req[t].out].ts = hist[t].prevTs

C1_Witness ==
    \E t \in Threads :
        /\ pc[t] = "ret" /\ ~req[t].force /\ hist[t].fresh
        /\ hist[t].prev # 0 /\ req[t].out = hist[t].prev /\ calls = 2

\* C2: a predict_one call with force=true returns a newly computed result whose
\* ts differs from the ts of the entry that was cached when it was called
C2_ForceYieldsNewComputedAt ==
    \A t \in Threads :
        (pc[t] = "ret" /\ req[t].force /\ hist[t].prev # 0) =>
            /\ hist[t].ranCore
            /\ req[t].out # hist[t].prev
            /\ heap[req[t].out].ts # hist[t].prevTs

\* C3: two requests for the same symbol, both with force=false and both having
\* missed the cache, are never inside _predict_core at the same time
C3_SingleFlight ==
    \A t1, t2 \in Threads :
        (t1 # t2 /\ pc[t1] = "core" /\ pc[t2] = "core"
            /\ ~req[t1].force /\ ~req[t2].force)
        => req[t1].symbol # req[t2].symbol

\* C12: the dict the cache holds for a symbol is never changed after
\* _predict_core built it: no caller of predict_one changes a field of it or
\* adds one, so the entry stays equal to what _predict_core produced
C12_CachedResultNeverModified ==
    \A s \in Symbols :
        CACHE[s] # 0 => heap[CACHE[s]] = NewResult(s, CACHE[s], heap[CACHE[s]].ts)

SpecCache == Init /\ [][CacheNext]_vars

\* a call with force=false that returns without having run _predict_core
\* found an entry younger than the TTL and returns it; one that found an
\* entry as old as the TTL or older has run _predict_core, returns the new
\* dict, and the old one is no longer the entry of the symbol
ReturnsCachedOnlyWhileFresh ==
    \A t \in Threads :
        (pc[t] = "ret" /\ ~req[t].force) =>
            /\ ~hist[t].ranCore =>
                    (hist[t].prev # 0 /\ hist[t].fresh /\ req[t].out = hist[t].prev)
            /\ (hist[t].prev # 0 /\ ~hist[t].fresh) =>
                    /\ hist[t].ranCore
                    /\ req[t].out # hist[t].prev
                    /\ CACHE[req[t].symbol] # hist[t].prev

\* a step changes the entry of a symbol, or the dict it holds, only as the
\* step of a call for that very symbol
OtherEntriesUntouched ==
    \A s \in Symbols :
        /\ CACHE'[s] # CACHE[s] =>
                \E t \in Threads :
                    pc[t] = "store" /\ req[t].symbol = s /\ CACHE'[s] = req[t].out
        /\ (CACHE[s] # 0 /\ CACHE'[s] = CACHE[s] /\ heap'[CACHE[s]] # heap[CACHE[s]]) =>
                \E t \in Threads : pc[t] = "ret" /\ req[t].symbol = s

\* a call whose recomputation failed returns no result
RaisesToCaller ==
    \A t \in Threads : pc[t] = "raised" => (req[t].out = 0 /\ ~hist[t].ranCore)

\* the steps of a call that fails - the call, the failure of _predict_core
\* and the way out to the caller - leave the cache, the dicts it holds and
\* the file as they are
FailingCallChangesNothing ==
    \A t \in Threads :
        ((pc[t] = "idle" /\ pc'[t] = "core") \/ (pc[t] = "core" /\ pc'[t] = "raised")
            \/ (pc[t] = "raised" /\ pc'[t] = "idle")) =>
                /\ CACHE' = CACHE
                /\ CACHE_FILE' = CACHE_FILE
                /\ \A s \in Symbols : CACHE[s] # 0 => heap'[CACHE[s]] = heap[CACHE[s]]

\* C28: when the recomputation inside predict_one fails, the error is
\* raised to the caller and the cache in memory and the cache file are left
\* as they were: an entry the symbol had before the call, expired or
\* passed over by force=true, is still its entry, and no entry is made for
\* a symbol that had none
C28_FailedRecomputeLeavesCache ==
    []RaisesToCaller /\ [][FailingCallChangesNothing]_vars

\* a forced call, or one that found its entry expired, has failed, and the
\* entry it found is still the entry of the symbol, in memory and on file
C28_Witness ==
    \E t \in Threads :
        /\ pc[t] = "raised" /\ hist[t].prev # 0
        /\ CACHE[req[t].symbol] = hist[t].prev
        /\ CACHE_FILE[req[t].symbol] = heap[hist[t].prev]

\* a call for a symbol without entry has failed, and there is still none
C28_NoEntryReached ==
    \E t \in Threads :
        /\ pc[t] = "raised" /\ hist[t].prev = 0
        /\ CACHE[req[t].symbol] = 0 /\ CACHE_FILE[req[t].symbol] = NoEntry

\* a call that rewrites the file leaves the entries of the other symbols in
\* it as they are, and writes the dict it computed under its own symbol
WriteKeepsOtherEntries ==
    \A t \in Threads :
        (pc[t] = "fwrite" /\ pc'[t] = "ret" /\ CACHE_FILE' # CACHE_FILE) =>
            /\ CACHE_FILE'[req[t].symbol] = heap[req[t].out]
            /\ \A s \in Symbols \ {req[t].symbol} : CACHE_FILE'[s] = CACHE_FILE[s]

\* C29: after predict_one calls for different symbols, concurrent or not,
\* whose file writes all succeed, the cache file holds for each of the
\* symbols the result the cache in memory holds: no call's
\* read-modify-write of the file erases the entry another call wrote
C29_FileKeepsEveryEntry == [][WriteKeepsOtherEntries]_vars

\* a call writes the dict it computed under its own symbol
WriteStoresOwnEntry ==
    \A t \in Threads :
        (pc[t] = "fwrite" /\ pc'[t] = "ret" /\ CACHE_FILE' # CACHE_FILE) =>
            CACHE_FILE'[req[t].symbol] = heap[req[t].out]

C29_EveryWriteStoresOwnEntry == [][WriteStoresOwnEntry]_vars

\* C27: a predict_one call with force=false returns the cached entry of a
\* symbol only while the entry is younger than the TTL; once the TTL has
\* passed since the entry's ts the next call for the symbol recomputes and
\* replaces the entry; and the entries of the other symbols are not
\* changed by the call
C27_CacheExpiresPerSymbol ==
    []ReturnsCachedOnlyWhileFresh /\ [][OtherEntriesUntouched]_vars

\* a call with force=false found an entry one TTL old, ran _predict_core
\* and stored the new dict in its place
C27_Witness ==
    \E t \in Threads :
        /\ pc[t] = "ret" /\ ~req[t].force
        /\ hist[t].prev # 0 /\ ~hist[t].fresh /\ hist[t].ranCore
        /\ CACHE[req[t].symbol] = req[t].out
        /\ clock - hist[t].prevTs >= _TTL

(***************************************************************************)
(* The prediction itself: _predict_core (predictor.py), the fallback of    *)
(* predict_agent.py and the entry points that call them. A price history   *)
(* is described by the number n of its valid closes (0 when the provider   *)
(* has nothing), by the index fd of its first falling close, and by what   *)
(* the numeric routines make of it: the ridge model's forecast, the        *)
(* span-10 EWMA of its daily returns and the mean of its last ten returns, *)
(* all in units of 1e-7.  Its last close is a price of at most four        *)
(* decimals, in units of 1e-4.                                             *)
(***************************************************************************)
\* histories of 0..MaxCloses valid closes
MaxCloses == 81

\* rolling(20) of line 39: the first row with every moving average defined
SmaWindow == 20
\* line 60: if len(data) < 60: raise
MinRows == 60
\* predict_agent.py line 25: if close.size < 20: raise
MinCloses == 20
\* 0.01 of line 78, in units of 1e-7
SignalThreshold == 100000

\* float(df["Close"].iloc[-1]): 0.02 and 0.0123
Lasts == {200, 123}
\* 1.0 in the units of pred_ret
One == 10000000

FirstDowns == {1, 30}
PredRets == {-150000, -100004, -100000, -99996, 0, 99996, 100000, 100004, 150000}

Max(a, b) == IF a >= b THEN a ELSE b

\* _features, lines 34-46: the rows that survive dropna(). Row i (from 0) has
\* sma20 from i = 19 on, ret1 from i = 1 on, and an RSI only once a close has
\* fallen (line 23 turns a zero average loss into NaN): i >= fd
FeatureRows(n, fd) == Max(0, n - Max(SmaWindow - 1, fd))

\* lines 58-59: the target of the last day is NaN, so that row is dropped too
AlignedRows(n, fd) == Max(0, FeatureRows(n, fd) - 1)

\* round(x, 6), lines 83 and 36: from units of 1e-7 to units of 1e-6, to the
\* nearest, a tie to the even neighbour
Round6(p) ==
    LET q == p \div 10
        r == p % 10
    IN  IF r < 5 THEN q
        ELSE IF r > 5 THEN q + 1
        ELSE IF q % 2 = 0 THEN q ELSE q + 1

\* line 78 (and predict_agent.py line 32): the signal, from the unrounded pred_ret
Signal(p) ==
    IF p > SignalThreshold THEN "BUY"
    ELSE IF p < -SignalThreshold THEN "SELL" ELSE "HOLD"

\* round(x / 1.0, 4) for x in units of 1e-11: to units of 1e-4, to the
\* nearest, a tie to the even neighbour
Round4(x) ==
    LET q == x \div One
        r == x % One
    IN  IF 2 * r < One THEN q
        ELSE IF 2 * r > One THEN q + 1
        ELSE IF q % 2 = 0 THEN q ELSE q + 1

\* line 77 (and predict_agent.py line 31): last_close * (1.0 + pred_ret), as
\* line 84 rounds it
PredClose(last, p) == Round4(last * (One + p))

Raised(msg) == [status |-> "raise", error |-> msg, tier |-> "none",
                last_close |-> 0, pred_ret_1d |-> 0, pred_close_1d |-> 0,
                signal |-> "none"]

\* lines 76-87: the dict built from the last close and pred_ret
ResultOf(last, p, tier) ==
    [status |-> "ok", error |-> "none", tier |-> tier,
     last_close |-> last, pred_ret_1d |-> Round6(p),
     pred_close_1d |-> PredClose(last, p), signal |-> Signal(p)]

\* _predict_core, lines 54-87 (with _download, lines 48-52)
PredictCore(n, fd, sk, last, ridge, ewma) ==
    IF n = 0 THEN Raised("no price")
    ELSE IF AlignedRows(n, fd) < MinRows THEN Raised("not enough data")
    ELSE IF sk THEN ResultOf(last, ridge, "ridge")
    ELSE ResultOf(last, ewma, "ewma")

\* predict_agent._predict_fallback, lines 20-40
PredictFallback(n, last, tail) ==
    IF n = 0 THEN Raised("fallback: no price data")
    ELSE IF n < MinCloses THEN Raised("fallback: not enough data")
    ELSE ResultOf(last, tail, "mean10")

\* api.predict, lines 131-141: an exception becomes a 200 answer {symbol, error}
ApiAnswer(r) == IF r.status = "raise" THEN [r EXCEPT !.status = "error"] ELSE r

\* predict_agent.predict, lines 42-51: predict_one, and the fallback when it raises
AgentAnswer(r, n, last, tail) ==
    IF r.status = "raise" THEN PredictFallback(n, last, tail) ELSE r

\* a history and what the numeric routines make of it; what a call does not
\* read stands at 0
PredInput(e, n, fd, sk, last, ridge, ewma, tail) ==
    [entry |-> e, n |-> n, fd |-> fd, sk |-> sk,
     last |-> IF AlignedRows(n, fd) >= MinRows \/ (e = "agent" /\ n >= MinCloses)
              THEN last ELSE 0,
     ridge |-> IF sk /\ AlignedRows(n, fd) >= MinRows THEN ridge ELSE 0,
     ewma |-> ewma, tail |-> IF e = "agent" THEN tail ELSE 0]

\* predict_one(symbol, force=True), or any call that misses the cache
PredictOne ==
    /\ pred = IdlePred
    /\ \E n \in 0..MaxCloses, fd \in FirstDowns, sk \in BOOLEAN, last \in Lasts,
          ridge \in PredRets, ewma \in PredRets :
            pred' = [in |-> PredInput("predict_one", n, fd, sk, last, ridge, ewma, 0),
                     out |-> PredictCore(n, fd, sk, last, ridge, ewma)]
    /\ UNCHANGED <<cacheVars, ratio, news>>

\* POST /predict
ApiPredict ==
    /\ pred = IdlePred
    /\ \E n \in 0..MaxCloses, fd \in FirstDowns, sk \in BOOLEAN, last \in Lasts,
          ridge \in PredRets, ewma \in PredRets :
            pred' = [in |-> PredInput("api", n, fd, sk, last, ridge, ewma, 0),
                     out |-> ApiAnswer(PredictCore(n, fd, sk, last, ridge, ewma))]
    /\ UNCHANGED <<cacheVars, ratio, news>>

\* predict_agent.predict(symbol)
AgentPredict ==
    /\ pred = IdlePred
    /\ \E n \in 0..MaxCloses, fd \in FirstDowns, sk \in BOOLEAN, last \in Lasts,
          ridge \in PredRets, ewma \in PredRets, tail \in PredRets :
            pred' = [in |-> PredInput("agent", n, fd, sk, last, ridge, ewma, tail),
                     out |-> AgentAnswer(PredictCore(n, fd, sk, last, ridge, ewma),
                                         n, last, tail)]
    /\ UNCHANGED <<cacheVars, ratio, news>>

\* the answer has been delivered; the next request may come
PredReturn ==
    /\ pred # IdlePred
    /\ pred' = IdlePred
    /\ UNCHANGED <<cacheVars, ratio, news>>

CoreNext ==
    \/ PredictOne
    \/ ApiPredict
    \/ AgentPredict
    \/ PredReturn

SpecCore == Init /\ [][CoreNext]_vars

(***************************************************************************)
(* The claims about the prediction.                                        *)
(***************************************************************************)
PredCalled == pred.in.entry # "none"

\* C8: the return predictor (predict_one, and POST /predict on top of it)
\* fails only when fewer than 20 valid closes are available: with 20 or more
\* it returns a result
C8_FailsOnlyBelowTwentyCloses ==
    (PredCalled /\ pred.in.entry \in {"predict_one", "api"} /\ pred.in.n >= MinCloses)
        => pred.out.status = "ok"

\* C9: inside predict_one, when the regression library is missing or the
\* history (of 20 closes or more) yields fewer than 60 aligned rows, the
\* predictor does not fail: it returns the span-10 EWMA of the daily returns
C9_FallsBackToEwma ==
    (PredCalled /\ pred.in.entry = "predict_one" /\ pred.in.n >= MinCloses
        /\ (~pred.in.sk \/ AlignedRows(pred.in.n, pred.in.fd) < MinRows))
        => /\ pred.out.status = "ok"
           /\ pred.out.tier = "ewma"
           /\ pred.out.pred_ret_1d = Round6(pred.in.ewma)

\* the signal a reader computes from the reported pred_ret_1d (units of 1e-6)
SignalOfReported(m) ==
    IF m > SignalThreshold \div 10 THEN "BUY"
    ELSE IF m < -(SignalThreshold \div 10) THEN "SELL" ELSE "HOLD"

\* C10: in every result returned, by either tier or by the caller's fallback,
\* signal is BUY iff the reported pred_ret_1d > 0.01, SELL iff it is < -0.01,
\* HOLD otherwise
C10_SignalFromReportedReturn ==
    (PredCalled /\ pred.out.status = "ok")
        => pred.out.signal = SignalOfReported(pred.out.pred_ret_1d)

\* C11: in every result returned, by either tier or by the caller's fallback,
\* the reported fields satisfy pred_close_1d = last_close * (1 + pred_ret_1d)
\* (both sides in units of 1e-10)
C11_PredCloseFromReportedFields ==
    (PredCalled /\ pred.out.status = "ok")
        => pred.out.pred_close_1d * 1000000
                = pred.out.last_close * (1000000 + pred.out.pred_ret_1d)

(***************************************************************************)
(* The rows _predict_core works on.  The days of a price history of n       *)
(* closes are 0..n-1 in the order of their timestamps, as the provider      *)
(* delivers them; a row of the features or of the data is named by its day. *)
(***************************************************************************)
\* histories of 0..MaxDays closes
MaxDays == 100

\* _features, lines 34-46: the days whose row survives dropna()
FeatureDays(n, fd) == {d \in 0..(n - 1) : d >= Max(SmaWindow - 1, fd)}

\* lines 58-59: y is NaN on the last day of the history (shift(-1) has no
\* next close there), and dropna() takes that row out of data
DataDays(n, fd) == {d \in FeatureDays(n, fd) : d + 1 <= n - 1}

\* a split that rounds 0.8 * len up
SplitAtCeil(len) == (len * 8 + 9) \div 10

\* line 63: split = int(len(data) * 0.8)
SplitAt(len) == (len * 8) \div 10

\* the k first days of a set of days, in time order
FirstDays(days, k) == {d \in days : Cardinality({e \in days : e < d}) < k}

\* line 64: train, test = data.iloc[:split], data.iloc[split:]
Train(n, fd) == FirstDays(DataDays(n, fd), SplitAt(Cardinality(DataDays(n, fd))))
Test(n, fd) == DataDays(n, fd) \ Train(n, fd)

\* the latest day of a set of days that is not empty
LastDay(days) == CHOOSE d \in days : \A e \in days : e <= d

\* lines 68-74: the row pred_ret is computed on, the last one of Xte for
\* the ridge model, the last one of X for the EWMA
ForecastDay(n, fd, sk) ==
    IF sk THEN LastDay(Test(n, fd)) ELSE LastDay(FeatureDays(n, fd))

\* lines 54-76 of _predict_core, as far as the rows go
CoreRows(n, fd, sk) ==
    IF n = 0 THEN [status |-> "raise", error |-> "no price"]
    ELSE IF Cardinality(DataDays(n, fd)) < MinRows
    THEN [status |-> "raise", error |-> "not enough data"]
    ELSE [status |-> "ok", rows |-> Cardinality(DataDays(n, fd)),
          train |-> Train(n, fd), test |-> Test(n, fd),
          forecast_day |-> ForecastDay(n, fd, sk), last_close_day |-> n - 1]

\* _predict_core on a history of n closes
CoreRowsCall ==
    /\ pred = IdlePred
    /\ \E n \in 0..MaxDays, fd \in FirstDowns, sk \in BOOLEAN :
        pred' = [in |-> [entry |-> "_predict_core", n |-> n, fd |-> fd, sk |-> sk],
                 out |-> CoreRows(n, fd, sk)]
    /\ UNCHANGED <<cacheVars, ratio, news>>

CoreRowsNext ==
    \/ CoreRowsCall
    \/ PredReturn

SpecCoreRows == Init /\ [][CoreRowsNext]_vars

\* C24: the feature row the regression forecast is computed on is the most
\* recent one, the row of today: its day is the last day of the price
\* history, the day whose close is reported as last_close
C24_ForecastOnLatestRow ==
    (pred.in.entry = "_predict_core" /\ pred.out.status = "ok" /\ pred.in.sk) =>
        /\ pred.out.forecast_day = pred.in.n - 1
        /\ pred.out.forecast_day = pred.out.last_close_day

\* the forecast of the ridge model is computed on the last row of the test
\* partition, the day before the one of last_close
C24_ForecastOnLastTestRow ==
    (pred.in.entry = "_predict_core" /\ pred.out.status = "ok" /\ pred.in.sk) =>
        /\ \A d \in pred.out.test : d <= pred.out.forecast_day
        /\ pred.out.forecast_day \in pred.out.test
        /\ pred.out.forecast_day = pred.out.last_close_day - 1

\* C25: the split is chronological: with n aligned rows, n >= 60, the
\* training partition is the first floor(0.8 * n) rows in time order, the
\* test partition is the rest, neither is empty, and every training row is
\* strictly earlier than every test row
C25_ChronologicalSplit ==
    (pred.in.entry = "_predict_core" /\ pred.out.status = "ok") =>
        /\ pred.out.rows >= 60
        /\ Cardinality(pred.out.train) = (4 * pred.out.rows) \div 5
        /\ Cardinality(pred.out.train) + Cardinality(pred.out.test) = pred.out.rows
        /\ pred.out.train \cap pred.out.test = {}
        /\ pred.out.train # {} /\ pred.out.test # {}
        /\ \A d \in pred.out.train : \A e \in pred.out.test : d < e

\* a history of 93 closes gives 73 aligned rows, 58 of them for the
\* training and 15 for the test
C25_Witness ==
    /\ pred.in.entry = "_predict_core" /\ pred.out.status = "ok"
    /\ pred.out.rows = 73
    /\ Cardinality(pred.out.train) = 58 /\ Cardinality(pred.out.test) = 15

(***************************************************************************)
(* The ratio extraction: finance_agent.compute_ratios_for_ticker and        *)
(* run_query.  A statement table is a frame: its period columns, in the     *)
(* provider's order, and its rows, each a label and one cell per column.    *)
(* A cell or a metric is a record: null (NaN in a frame, None in Python)    *)
(* or an amount v.  A ratio is null or the exact quotient num/den, den > 0; *)
(* the amounts are small integers, on which the float division and the      *)
(* comparisons with the thresholds of the code are exact.                   *)
(***************************************************************************)
None == [null |-> TRUE, v |-> 0]
Num(x) == [null |-> FALSE, v |-> x]
NoRatio == [null |-> TRUE, num |-> 0, den |-> 1]

Row(label, vals) == [label |-> label, vals |-> vals]
Frame(cols, rows) == [kind |-> "df", cols |-> cols, rows |-> rows]
\* what reading a statement attribute of the ticker can give: a frame, None
\* (also the default getattr gives for an AttributeError), or an exception
\* of the provider (transport, rate limit, parsing)
NoFrame == [kind |-> "none", cols |-> <<>>, rows |-> <<>>]
FetchRaises == [kind |-> "raise", cols |-> <<>>, rows |-> <<>>]
EmptyFrame == Frame(<<>>, <<>>)

\* df is None or getattr(df, "empty", True)
Missing(df) == df.kind # "df" \/ Len(df.rows) = 0 \/ Len(df.cols) = 0

\* str.lower() and str.strip(), on the characters of the labels
UpperToLower ==
    [c \in {"A","B","C","D","E","F","G","H","I","J","K","L","M","N","O","P",
            "Q","R","S","T","U","V","W","X","Y","Z"} |->
        CASE c = "A" -> "a" [] c = "B" -> "b" [] c = "C" -> "c" [] c = "D" -> "d"
          [] c = "E" -> "e" [] c = "F" -> "f" [] c = "G" -> "g" [] c = "H" -> "h"
          [] c = "I" -> "i" [] c = "J" -> "j" [] c = "K" -> "k" [] c = "L" -> "l"
          [] c = "M" -> "m" [] c = "N" -> "n" [] c = "O" -> "o" [] c = "P" -> "p"
          [] c = "Q" -> "q" [] c = "R" -> "r" [] c = "S" -> "s" [] c = "T" -> "t"
          [] c = "U" -> "u" [] c = "V" -> "v" [] c = "W" -> "w" [] c = "X" -> "x"
          [] c = "Y" -> "y" [] c = "Z" -> "z"]

LowerChar(c) == IF c \in DOMAIN UpperToLower THEN UpperToLower[c] ELSE c

\* the characters lo..hi of s in lower case
RECURSIVE LowerRange(_, _, _)
LowerRange(s, lo, hi) ==
    IF lo > hi THEN ""
    ELSE IF lo = hi THEN LowerChar(SubSeq(s, lo, lo))
    ELSE LowerRange(s, lo, (lo + hi) \div 2) \o LowerRange(s, (lo + hi) \div 2 + 1, hi)

Lower(s) == LowerRange(s, 1, Len(s))

RECURSIVE Strip(_)
Strip(s) ==
    IF Len(s) = 0 THEN s
    ELSE IF SubSeq(s, 1, 1) = " " THEN Strip(SubSeq(s, 2, Len(s)))
    ELSE IF SubSeq(s, Len(s), Len(s)) = " " THEN Strip(SubSeq(s, 1, Len(s) - 1))
    ELSE s

\* alias_l in row_lower
Contains(row_lower, alias_l) ==
    \E i \in 1..(Len(row_lower) - Len(alias_l) + 1) :
        SubSeq(row_lower, i, i + Len(alias_l) - 1) = alias_l

\* sorted(df.columns, reverse=True): the positions of the columns, the most
\* recent period first
RECURSIVE ColsSorted(_, _)
ColsSorted(cols, left) ==
    IF left = {} THEN <<>>
    ELSE LET m == CHOOSE i \in left : \A j \in left : cols[i] > cols[j] \/ (cols[i] = cols[j] /\ i <= j)
         IN  <<m>> \o ColsSorted(cols, left \ {m})

\* lower_index_map: the stripped lower-case label of every row; a label met
\* again keeps the place of its first row and the content of its last
RECURSIVE RowKeys(_, _)
RowKeys(rows, j) ==
    IF j > Len(rows) THEN <<>>
    ELSE <<Lower(Strip(rows[j].label))>> \o RowKeys(rows, j + 1)

IsIndexKey(keys, j) == \A i \in 1..(j - 1) : keys[i] # keys[j]
RowOrig(keys, j) ==
    CHOOSE k \in j..Len(keys) :
        keys[k] = keys[j] /\ \A l \in (k + 1)..Len(keys) : keys[l] # keys[j]

\* the first cell of a row that is not null, the most recent period first
RECURSIVE FirstNotNull(_, _, _)
FirstNotNull(vals, order, i) ==
    IF i > Len(order) THEN None
    ELSE IF ~vals[order[i]].null THEN vals[order[i]]
    ELSE FirstNotNull(vals, order, i + 1)

RECURSIVE ScanRows(_, _, _, _, _)
ScanRows(df, keys, order, alias_l, j) ==
    IF j > Len(keys) THEN None
    ELSE IF IsIndexKey(keys, j) /\ Contains(keys[j], alias_l)
         THEN LET val == FirstNotNull(df.rows[RowOrig(keys, j)].vals, order, 1)
              IN  IF ~val.null THEN val ELSE ScanRows(df, keys, order, alias_l, j + 1)
    ELSE ScanRows(df, keys, order, alias_l, j + 1)

RECURSIVE ScanAliases(_, _, _, _, _)
ScanAliases(df, keys, order, aliases, i) ==
    IF i > Len(aliases) THEN None
    ELSE LET val == ScanRows(df, keys, order, Lower(Strip(aliases[i])), 1)
         IN  IF ~val.null THEN val ELSE ScanAliases(df, keys, order, aliases, i + 1)

_latest_value_from_df(df, aliases) ==
    IF Missing(df) THEN None
    ELSE ScanAliases(df, RowKeys(df.rows, 1),
                     ColsSorted(df.cols, 1..Len(df.cols)), aliases, 1)

_sum_if_present(a, b) ==
    IF a.null /\ b.null THEN None
    ELSE Num((IF a.null THEN 0 ELSE a.v) + (IF b.null THEN 0 ELSE b.v))

\* float(a) / float(b), kept as the quotient itself
Quot(a, b) ==
    IF b > 0 THEN [null |-> FALSE, num |-> a, den |-> b]
    ELSE [null |-> FALSE, num |-> -a, den |-> -b]

\* a division that tests the operands for None only and divides unprotected
SafeDivWithoutZeroTest(a, b) ==
    IF a.null \/ b.null THEN NoRatio ELSE Quot(a.v, b.v)

_safe_div(a, b) ==
    IF a.null \/ b.null \/ b.v = 0 THEN NoRatio ELSE Quot(a.v, b.v)

\* x or y, on metrics: None and 0.0 are both falsy
OrElse(x, y) == IF x.null \/ x.v = 0 THEN y ELSE x

Abs(x) == IF x < 0 THEN -x ELSE x

\* val >= thr and val <= thr, thr in tenths
AtLeast(val, thr) == val.num * 10 >= thr * val.den
AtMost(val, thr) == val.num * 10 <= thr * val.den

\* a labelling that leaves out the None test and compares right away
BandWithoutNoneTest(val, good, fair, higher_is_better) ==
    IF higher_is_better
    THEN IF AtLeast(val, good) THEN "Strong"
         ELSE IF AtLeast(val, fair) THEN "Fair" ELSE "Weak"
    ELSE IF AtMost(val, good) THEN "Strong"
         ELSE IF AtMost(val, fair) THEN "Fair" ELSE "Weak"

\* a labelling that compares strictly: a value on a threshold falls into
\* the band below
BandStrict(val, good, fair, higher_is_better) ==
    IF val.null THEN "N/A"
    ELSE IF higher_is_better
    THEN IF ~AtMost(val, good) THEN "Strong"
         ELSE IF ~AtMost(val, fair) THEN "Fair" ELSE "Weak"
    ELSE IF ~AtLeast(val, good) THEN "Strong"
         ELSE IF ~AtLeast(val, fair) THEN "Fair" ELSE "Weak"

\* a labelling that forgets the direction and bands every ratio as one
\* that is better when higher
BandIgnoringDirection(val, good, fair, higher_is_better) ==
    IF val.null THEN "N/A"
    ELSE IF AtLeast(val, good) THEN "Strong"
    ELSE IF AtLeast(val, fair) THEN "Fair" ELSE "Weak"

_band(val, good, fair, higher_is_better) ==
    IF val.null THEN "N/A"
    ELSE IF higher_is_better
    THEN IF AtLeast(val, good) THEN "Strong"
         ELSE IF AtLeast(val, fair) THEN "Fair" ELSE "Weak"
    ELSE IF AtMost(val, good) THEN "Strong"
         ELSE IF AtMost(val, fair) THEN "Fair" ELSE "Weak"

Entry(val, good, fair, higher_is_better) ==
    [value |-> val, band |-> _band(val, good, fair, higher_is_better)]

\* the attributes one call reads: the annual balance sheet and
\* quarterly_income_stmt only when the table before them is missing
Fetched(snap) ==
    {"quarterly_balance_sheet", "quarterly_financials", "income_stmt",
     "quarterly_cashflow", "cashflow"}
        \cup (IF Missing(snap["quarterly_balance_sheet"]) THEN {"balance_sheet"} ELSE {})
        \cup (IF Missing(snap["quarterly_financials"]) THEN {"quarterly_income_stmt"} ELSE {})

FetchFails(snap) == \E a \in Fetched(snap) : snap[a].kind = "raise"

\* _has_df
HasDf(df) == ~Missing(df)

EbitAliases == <<"ebit", "operating income", "earnings before interest and taxes">>
InterestAliases == <<"interest expense", "interest expense non operating">>

\* the EBIT of the quarterly income statement, else of the annual one
Ebit(q_is, a_is) ==
    LET ebit_q == IF HasDf(q_is) THEN _latest_value_from_df(q_is, EbitAliases) ELSE None
    IN  IF ebit_q.null /\ HasDf(a_is)
        THEN _latest_value_from_df(a_is, EbitAliases) ELSE ebit_q

\* the interest expense of the first statement that has one
InterestExpense(q_is, a_is, q_cf, a_cf) ==
    LET ie_q == IF HasDf(q_is) THEN _latest_value_from_df(q_is, InterestAliases) ELSE None
        ie_a == IF ie_q.null /\ HasDf(a_is)
                THEN _latest_value_from_df(a_is, InterestAliases) ELSE ie_q
        ie_c == IF ie_a.null /\ HasDf(q_cf)
                THEN _latest_value_from_df(q_cf, <<"interest paid">>) ELSE ie_a
    IN  IF ie_c.null /\ HasDf(a_cf)
        THEN _latest_value_from_df(a_cf, <<"interest paid">>) ELSE ie_c

\* the figures the ratios are made of, as read from the statements
Metrics(q_bs, q_is, a_is, q_cf, a_cf) ==
    [current_assets |->
        _latest_value_from_df(q_bs, <<"total current assets", "current assets">>),
     current_liabilities |->
        _latest_value_from_df(q_bs, <<"total current liabilities", "current liabilities">>),
     inventory |-> _latest_value_from_df(q_bs, <<"inventory">>),
     cash_like |->
        _sum_if_present(
            _latest_value_from_df(q_bs, <<"cash and cash equivalents",
                "cash and cash equivalents including short-term investments",
                "cash and short term investments",
                "cash and short-term investments", "cash">>),
            _latest_value_from_df(q_bs, <<"short term investments", "short-term investments">>)),
     total_assets |-> _latest_value_from_df(q_bs, <<"total assets">>),
     total_liabilities |-> _latest_value_from_df(q_bs, <<"total liabilities">>),
     equity |-> _latest_value_from_df(q_bs, <<"total stockholder equity",
                    "total shareholders equity", "total equity">>),
     total_debt |->
        OrElse(_latest_value_from_df(q_bs, <<"total debt">>),
               _sum_if_present(
                    _latest_value_from_df(q_bs, <<"short long term debt",
                        "current portion of long term debt", "short-term debt">>),
                    _latest_value_from_df(q_bs, <<"long term debt">>))),
     ebit |-> Ebit(q_is, a_is),
     interest_expense |-> InterestExpense(q_is, a_is, q_cf, a_cf)]

\* current_assets - inventory when both are there
QuickAssets(current_assets, inventory) ==
    IF ~current_assets.null /\ ~inventory.null
    THEN Num(current_assets.v - inventory.v) ELSE None

\* a coverage that divides by the interest expense as it is reported
InterestCoverageSigned(ebit, interest_expense) ==
    IF ~ebit.null /\ ~interest_expense.null /\ interest_expense.v # 0
    THEN Quot(ebit.v, interest_expense.v) ELSE NoRatio

\* interest_cov
InterestCoverage(ebit, interest_expense) ==
    IF ~ebit.null /\ ~interest_expense.null /\ Abs(interest_expense.v) # 0
    THEN Quot(ebit.v, Abs(interest_expense.v)) ELSE NoRatio

\* the ratios of the figures m, each with its band
Banded(m) ==
    [Liquidity |->
        [current_ratio |->
            Entry(_safe_div(m.current_assets, m.current_liabilities), 15, 10, TRUE),
         quick_ratio |->
            Entry(_safe_div(QuickAssets(m.current_assets, m.inventory),
                            m.current_liabilities), 10, 8, TRUE),
         cash_ratio |-> Entry(_safe_div(m.cash_like, m.current_liabilities), 5, 2, TRUE)],
     Solvency |->
        [debt_to_equity |-> Entry(_safe_div(m.total_debt, m.equity), 10, 20, FALSE),
         debt_ratio |-> Entry(_safe_div(m.total_liabilities, m.total_assets), 5, 7, FALSE),
         interest_coverage |->
            Entry(InterestCoverage(m.ebit, m.interest_expense), 50, 20, TRUE)]]

Assessment(q_bs, q_is, a_is, q_cf, a_cf) == Banded(Metrics(q_bs, q_is, a_is, q_cf, a_cf))

\* compute_ratios_for_ticker on the statements snap holds; the company name,
\* the sector and the price are read under their own guards and play no part
\* in the ratios
compute_ratios_for_ticker(snap) ==
    LET q_bs == IF Missing(snap["quarterly_balance_sheet"])
                THEN snap["balance_sheet"] ELSE snap["quarterly_balance_sheet"]
        q_is == IF Missing(snap["quarterly_financials"])
                THEN snap["quarterly_income_stmt"] ELSE snap["quarterly_financials"]
    IN  IF FetchFails(snap) THEN [status |-> "raised"]
        ELSE IF Missing(q_bs)
        THEN [status |-> "ok",
              ratios |-> [Liquidity |-> <<>>, Solvency |-> <<>>],
              notes |-> "no balance sheet"]
        ELSE [status |-> "ok",
              ratios |-> Assessment(q_bs, q_is, snap["income_stmt"],
                                    snap["quarterly_cashflow"], snap["cashflow"]),
              notes |-> "latest statements"]

RatioNames ==
    [Liquidity |-> {"current_ratio", "quick_ratio", "cash_ratio"},
     Solvency |-> {"debt_to_equity", "debt_ratio", "interest_coverage"}]

\* liq.get(k, {}).get("value") is None, for every name of the group
GroupEmpty(ratios, g) ==
    \A k \in RatioNames[g] : k \in DOMAIN ratios[g] => ratios[g][k].value.null

\* run_query on the statements of the ticker it picked (pick_valid_ticker and
\* _get_company_summary swallow every exception of their own reads)
run_query(snap) ==
    LET payload == compute_ratios_for_ticker(snap)
    IN  IF payload.status = "raised" THEN payload
        ELSE IF GroupEmpty(payload.ratios, "Liquidity") /\ GroupEmpty(payload.ratios, "Solvency")
        THEN [status |-> "ok", ratios |-> payload.ratios,
              notes |-> "statements not found", explanation |-> "none generated"]
        ELSE [status |-> "ok", ratios |-> payload.ratios,
              notes |-> payload.notes, explanation |-> "narrative"]

(***************************************************************************)
(* The statements the provider may hold.  A row of a frame is given by its  *)
(* cells, the most recent period first; no cells, no row.                   *)
(***************************************************************************)
RowIf(label, vals) == IF vals = <<>> THEN <<>> ELSE <<Row(label, vals)>>

BalanceSheet(ca, cl, inv, cash, sti, ta, tl, eq, td, sltd, ltd) ==
    Frame(<<2, 1>>,
          RowIf("Total Assets", ta) \o RowIf("Current Assets", ca)
            \o RowIf("Cash And Cash Equivalents", cash)
            \o RowIf("Other Short Term Investments", sti)
            \o RowIf("Inventory", inv)
            \o RowIf("Total Liabilities Net Minority Interest", tl)
            \o RowIf("Current Liabilities", cl)
            \o RowIf("Short Long Term Debt", sltd)
            \o RowIf("Long Term Debt", ltd)
            \o RowIf("Total Equity Gross Minority Interest", eq)
            \o RowIf("Total Debt", td))

IncomeStmt(ebit, ie) ==
    Frame(<<2, 1>>,
          RowIf("Total Revenue", <<Num(900), Num(800)>>)
            \o RowIf("EBIT", ebit) \o RowIf("Interest Expense", ie))

CashFlow(paid) ==
    Frame(<<2, 1>>,
          RowIf("Free Cash Flow", <<Num(70), Num(60)>>)
            \o RowIf("Interest Paid Supplemental Data", paid))

Cells(x) == <<Num(x), Num(x + 10)>>

CaVals == {<<>>, Cells(150), Cells(90), <<None, Num(120)>>}
ClVals == {<<>>, Cells(100), <<Num(0), Num(90)>>}
InvVals == {<<>>, Cells(30)}
CashVals == {<<>>, Cells(40), Cells(10), <<Num(0), Num(5)>>}
StiVals == {<<>>, <<Num(15), None>>}
TaVals == {<<>>, Cells(400), <<Num(0), Num(400)>>}
TlVals == {<<>>, Cells(200), Cells(300)}
EqVals == {<<>>, Cells(100), Cells(-100)}
TdVals == {<<>>, <<Num(0), Num(50)>>, Cells(120), Cells(250)}
DebtParts == {<< <<>>, <<>> >>, <<Cells(20), Cells(80)>>, << <<>>, Cells(300)>>}
EbitVals == {<<>>, Cells(500), Cells(-200)}
IeVals == {<<>>, <<Num(0), Num(0)>>, Cells(-50), Cells(100)}

FullBalanceSheet ==
    BalanceSheet(Cells(150), Cells(100), Cells(30), Cells(40), <<>>,
                 Cells(400), Cells(200), Cells(100), Cells(120), <<>>, <<>>)
AnnualBalanceSheet ==
    BalanceSheet(Cells(80), Cells(100), <<>>, Cells(10), <<>>,
                 Cells(500), Cells(400), Cells(100), <<>>, <<>>, Cells(300))

Snapshot(qbs, abs, qfin, qinc, ais, qcf, acf) ==
    [quarterly_balance_sheet |-> qbs, balance_sheet |-> abs,
     quarterly_financials |-> qfin, quarterly_income_stmt |-> qinc,
     income_stmt |-> ais, quarterly_cashflow |-> qcf, cashflow |-> acf]

\* every statement answers; the liquidity rows of the balance sheet vary
LiquiditySnapshots ==
    {Snapshot(BalanceSheet(ca, cl, inv, cash, sti, Cells(400), Cells(200),
                           Cells(100), Cells(120), <<>>, <<>>),
              AnnualBalanceSheet, IncomeStmt(Cells(500), Cells(100)), EmptyFrame,
              IncomeStmt(Cells(450), Cells(90)), CashFlow(Cells(25)), CashFlow(Cells(40))) :
        ca \in CaVals, cl \in ClVals, inv \in InvVals, cash \in CashVals, sti \in StiVals}

\* every statement answers; the solvency rows of the balance sheet vary
SolvencySnapshots ==
    {Snapshot(BalanceSheet(Cells(150), Cells(100), Cells(30), Cells(40), <<>>,
                           ta, tl, eq, td, parts[1], parts[2]),
              AnnualBalanceSheet, IncomeStmt(Cells(500), Cells(100)), EmptyFrame,
              IncomeStmt(Cells(450), Cells(90)), CashFlow(Cells(25)), CashFlow(Cells(40))) :
        ta \in TaVals, tl \in TlVals, eq \in EqVals, td \in TdVals, parts \in DebtParts}

\* the balance sheet answers; the income statement and the cash flow vary
IncomeSnapshots ==
    {Snapshot(FullBalanceSheet, AnnualBalanceSheet, IncomeStmt(ebit, ie), EmptyFrame,
              ais, qcf, CashFlow(Cells(40))) :
        ebit \in EbitVals, ie \in IeVals,
        ais \in {NoFrame, IncomeStmt(Cells(450), Cells(90))},
        qcf \in {EmptyFrame, CashFlow(Cells(25))}}

\* each statement may be missing, empty or fail to load
FetchSnapshots ==
    {Snapshot(qbs, abs, qfin, qinc, ais, qcf, acf) :
        qbs \in {FetchRaises, NoFrame, EmptyFrame, FullBalanceSheet},
        abs \in {FetchRaises, EmptyFrame, AnnualBalanceSheet},
        qfin \in {FetchRaises, NoFrame, EmptyFrame, IncomeStmt(Cells(500), Cells(100))},
        qinc \in {FetchRaises, EmptyFrame, IncomeStmt(Cells(300), <<>>)},
        ais \in {FetchRaises, NoFrame, IncomeStmt(Cells(450), Cells(90))},
        qcf \in {FetchRaises, EmptyFrame, CashFlow(Cells(25))},
        acf \in {NoFrame, CashFlow(Cells(40))}}

Snapshots ==
    LiquiditySnapshots \cup SolvencySnapshots \cup IncomeSnapshots \cup FetchSnapshots

\* a caller asks for the ratios of a ticker
ComputeRatios ==
    /\ ratio = IdleRatio
    /\ \E snap \in Snapshots :
        ratio' = [entry |-> "compute_ratios_for_ticker", in |-> snap,
                  out |-> compute_ratios_for_ticker(snap)]
    /\ UNCHANGED <<cacheVars, pred, news>>

\* POST /analyze: run_query
RunQuery ==
    /\ ratio = IdleRatio
    /\ \E snap \in Snapshots :
        ratio' = [entry |-> "run_query", in |-> snap, out |-> run_query(snap)]
    /\ UNCHANGED <<cacheVars, pred, news>>

\* the answer has been delivered; the next request may come
RatioReturn ==
    /\ ratio # IdleRatio
    /\ ratio' = IdleRatio
    /\ UNCHANGED <<cacheVars, pred, news>>

RatioNext ==
    \/ ComputeRatios
    \/ RunQuery
    \/ RatioReturn

SpecRatio == Init /\ [][RatioNext]_vars

(***************************************************************************)
(* The claims about the ratio extraction.                                  *)
(***************************************************************************)
RatioCalled == ratio.entry # "none"
RatioGroups == {"Liquidity", "Solvency"}

\* C4: in every assessment compute_ratios_for_ticker returns (and run_query
\* passes on), each of the six ratios it holds has band N/A if and only if
\* its value is null, and a band among Strong, Fair, Weak otherwise
C4_BandNAIffValueNull ==
    (RatioCalled /\ ratio.out.status = "ok") =>
        \A g \in RatioGroups : \A k \in RatioNames[g] :
            k \in DOMAIN ratio.out.ratios[g] =>
                LET e == ratio.out.ratios[g][k]
                IN  /\ e.band = "N/A" <=> e.value.null
                    /\ ~e.value.null => e.band \in {"Strong", "Fair", "Weak"}

\* an assessment with all six ratios, of which one is null and labelled N/A
\* while others carry a value and a band
C4_Witness ==
    /\ ratio.entry = "compute_ratios_for_ticker"
    /\ ratio.out.status = "ok"
    /\ \A g \in RatioGroups : DOMAIN ratio.out.ratios[g] = RatioNames[g]
    /\ ratio.out.ratios["Liquidity"]["quick_ratio"].value.null
    /\ ratio.out.ratios["Liquidity"]["quick_ratio"].band = "N/A"
    /\ ~ratio.out.ratios["Liquidity"]["current_ratio"].value.null
    /\ ratio.out.ratios["Liquidity"]["current_ratio"].band = "Weak"
    /\ ratio.out.ratios["Solvency"]["debt_ratio"].band = "Strong"

\* C5: with no balance sheet at all (the quarterly and the annual one both
\* missing or empty) the extraction returns without raising an assessment in
\* which every one of the six ratio names is present with value null and band
\* N/A, and a note
C5_MissingStatementsGiveAllNA ==
    (RatioCalled /\ ~FetchFails(ratio.in)
        /\ Missing(ratio.in["quarterly_balance_sheet"])
        /\ Missing(ratio.in["balance_sheet"]))
        => /\ ratio.out.status = "ok"
           /\ ratio.out.notes # ""
           /\ \A g \in RatioGroups : \A k \in RatioNames[g] :
                /\ k \in DOMAIN ratio.out.ratios[g]
                /\ ratio.out.ratios[g][k].value.null
                /\ ratio.out.ratios[g][k].band = "N/A"

\* C6: when reading one of the statement tables fails with an exception of
\* the provider, the extraction still returns a result
C6_ProviderErrorNeverPropagates ==
    (RatioCalled /\ FetchFails(ratio.in)) => ratio.out.status = "ok"

(***************************************************************************)
(* The division and the labelling on their own: _safe_div on every pair of  *)
(* operands, _band on every value under the thresholds of each ratio.       *)
(***************************************************************************)
Amounts == {-100, 0, 30, 100, 150}
Operands == {None} \cup {Num(x) : x \in Amounts}

\* the values a ratio may take, in tenths, around the thresholds
Tenths == {-5, 0, 1, 2, 3, 5, 6, 7, 8, 9, 10, 12, 15, 16, 20, 21, 49, 50, 51}
BandValues == {NoRatio} \cup {Quot(n, 10) : n \in Tenths}

\* the thresholds of lines 225-232, in tenths, and the direction
BandRules ==
    [current_ratio |-> [good |-> 15, fair |-> 10, higher_is_better |-> TRUE],
     quick_ratio |-> [good |-> 10, fair |-> 8, higher_is_better |-> TRUE],
     cash_ratio |-> [good |-> 5, fair |-> 2, higher_is_better |-> TRUE],
     debt_to_equity |-> [good |-> 10, fair |-> 20, higher_is_better |-> FALSE],
     debt_ratio |-> [good |-> 5, fair |-> 7, higher_is_better |-> FALSE],
     interest_coverage |-> [good |-> 50, fair |-> 20, higher_is_better |-> TRUE]]

\* what a call of _safe_div ends with: a quotient by zero is the
\* ZeroDivisionError of float(a) / float(b)
Returned(val) ==
    IF ~val.null /\ val.den = 0 THEN [status |-> "raised"]
    ELSE [status |-> "ok", value |-> val]

\* _safe_div(a, b)
SafeDivCall ==
    /\ ratio = IdleRatio
    /\ \E a \in Operands, b \in Operands :
        ratio' = [entry |-> "_safe_div", in |-> [a |-> a, b |-> b],
                  out |-> Returned(_safe_div(a, b))]
    /\ UNCHANGED <<cacheVars, pred, news>>

\* _band(val, good, fair, higher_is_better), as lines 225-232 call it
BandCall ==
    /\ ratio = IdleRatio
    /\ \E val \in BandValues, name \in DOMAIN BandRules :
        ratio' = [entry |-> "_band", in |-> [val |-> val, name |-> name],
                  out |-> [status |-> "ok",
                           band |-> _band(val, BandRules[name].good, BandRules[name].fair,
                                          BandRules[name].higher_is_better)]]
    /\ UNCHANGED <<cacheVars, pred, news>>

\* the frames _latest_value_from_df is asked about: up to MaxRows rows under
\* two periods, the labels in either case, the cells there or not; as in a
\* statement of the provider, no label stands twice in the index
MaxRows == 2
AliasLabels == {"EBIT", "ebit ", "Operating Income", "Total Revenue"}
AliasCells == {<<None, None>>, <<Num(5), None>>, <<None, Num(7)>>, <<Num(5), Num(7)>>}
AliasRows == {Row(l, c) : l \in AliasLabels, c \in AliasCells}
AliasFrames ==
    {NoFrame} \cup
    {Frame(cols, rows) : cols \in {<<2, 1>>, <<1, 2>>},
                         rows \in {r \in UNION {[1..n -> AliasRows] : n \in 0..MaxRows} :
                                    \A i, j \in 1..Len(r) : r[i].label = r[j].label => i = j}}
AliasLists == {EbitAliases, <<"operating income", "ebit">>}

\* _latest_value_from_df(df, aliases)
LatestValueCall ==
    /\ ratio = IdleRatio
    /\ \E df \in AliasFrames, aliases \in AliasLists :
        ratio' = [entry |-> "_latest_value_from_df", in |-> [df |-> df, aliases |-> aliases],
                  out |-> [status |-> "ok", value |-> _latest_value_from_df(df, aliases)]]
    /\ UNCHANGED <<cacheVars, pred, news>>

RatioPartsNext ==
    \/ SafeDivCall
    \/ BandCall
    \/ LatestValueCall
    \/ RatioReturn

SpecRatioParts == Init /\ [][RatioPartsNext]_vars

\* C13: _safe_div never raises, and whatever the numerator, with a
\* denominator that is null or 0 its result is null
C13_SafeDivNullOnZeroDenominator ==
    ratio.entry = "_safe_div" =>
        /\ ratio.out.status = "ok"
        /\ (ratio.in.b.null \/ ratio.in.b.v = 0) => ratio.out.value.null

\* a division of an amount by 0, and one by None, have returned null
C13_Witness ==
    /\ ratio.entry = "_safe_div"
    /\ ~ratio.in.a.null /\ ratio.in.a.v # 0
    /\ ~ratio.in.b.null /\ ratio.in.b.v = 0
    /\ ratio.out.status = "ok" /\ ratio.out.value.null

\* v1 <= v2, on two ratios that are not null
LessEq(v1, v2) == v1.num * v2.den <= v2.num * v1.den

Rank(band) == CASE band = "Weak" -> 1 [] band = "Fair" -> 2 [] band = "Strong" -> 3

\* the band of the value v under the thresholds of the ratio name
BandOf(v, name) ==
    _band(v, BandRules[name].good, BandRules[name].fair, BandRules[name].higher_is_better)

\* C14: the labelling is monotonic in the favoured direction: for a ratio that
\* is better when higher, v1 <= v2 implies rank(band(v1)) <= rank(band(v2)),
\* with Weak < Fair < Strong; for one that is better when lower (debt to
\* equity, debt ratio), v1 <= v2 implies rank(band(v1)) >= rank(band(v2))
C14_BandMonotonic ==
    (ratio.entry = "_band" /\ ~ratio.in.val.null) =>
        \A v2 \in BandValues \ {NoRatio} :
            LessEq(ratio.in.val, v2) =>
                IF BandRules[ratio.in.name].higher_is_better
                THEN Rank(ratio.out.band) <= Rank(BandOf(v2, ratio.in.name))
                ELSE Rank(ratio.out.band) >= Rank(BandOf(v2, ratio.in.name))

\* a debt ratio of 0.6 is Fair, and there are larger values that are Weak
\* and smaller ones that are Strong
C14_Witness ==
    /\ ratio.entry = "_band" /\ ratio.in.name = "debt_ratio"
    /\ ratio.in.val = Quot(6, 10) /\ ratio.out.band = "Fair"
    /\ \E v2 \in BandValues \ {NoRatio} :
            LessEq(ratio.in.val, v2) /\ BandOf(v2, "debt_ratio") = "Weak"
    /\ \E v0 \in BandValues \ {NoRatio} :
            LessEq(v0, ratio.in.val) /\ BandOf(v0, "debt_ratio") = "Strong"

\* the rows of df whose label contains the alias, whatever the case, and
\* have a cell that is not null
Valued(df, alias) ==
    {j \in 1..Len(df.rows) :
        /\ Contains(Lower(df.rows[j].label), Lower(alias))
        /\ \E c \in 1..Len(df.cols) : ~df.rows[j].vals[c].null}

\* the cell of the row in the most recent period that has one
MostRecent(df, j) ==
    LET c == CHOOSE c \in 1..Len(df.cols) :
                /\ ~df.rows[j].vals[c].null
                /\ \A d \in 1..Len(df.cols) :
                        ~df.rows[j].vals[d].null => df.cols[d] <= df.cols[c]
    IN  df.rows[j].vals[c]

\* the aliases that have a row with a value
Live(df, aliases) == {i \in 1..Len(aliases) : Valued(df, aliases[i]) # {}}

\* the value comes from a valued row of the earliest live alias, and is
\* null exactly when no alias is live
ResolvedFrom(value, df, aliases, live) ==
    /\ value.null <=> live = {}
    /\ live # {} =>
            \E i \in live :
                /\ \A k \in live : i <= k
                /\ \E j \in Valued(df, aliases[i]) : value = MostRecent(df, j)

\* C22: _latest_value_from_df consults the aliases in their order: the
\* result is the value, in the most recent period that has one, of a row
\* whose label contains (whatever the case) the earliest alias that has a
\* matching row with a value, and it is null if and only if no row
\* matching any alias has a value
C22_AliasResolutionInPriorityOrder ==
    ratio.entry = "_latest_value_from_df" =>
        ResolvedFrom(ratio.out.value, ratio.in.df, ratio.in.aliases,
                     Live(ratio.in.df, ratio.in.aliases))

\* two rows of a frame have the same label once stripped and in lower case
SameKeyTwice(df) ==
    \E i, j \in 1..Len(df.rows) :
        i # j /\ Lower(Strip(df.rows[i].label)) = Lower(Strip(df.rows[j].label))

\* the same on the frames whose labels stay distinct without their case
C22_AliasResolutionOnDistinctLabels ==
    (ratio.entry = "_latest_value_from_df" /\ ~SameKeyTwice(ratio.in.df)) =>
        ResolvedFrom(ratio.out.value, ratio.in.df, ratio.in.aliases,
                     Live(ratio.in.df, ratio.in.aliases))

(***************************************************************************)
(* The claims about the ratios of a whole assessment.                       *)
(***************************************************************************)
\* the assessments of a balance sheet with current assets 150, current
\* liabilities 100 and inventory 30
ExampleSnapshots ==
    {Snapshot(BalanceSheet(Cells(150), Cells(100), Cells(30), cash, sti, Cells(400),
                           Cells(200), Cells(100), Cells(120), <<>>, <<>>),
              AnnualBalanceSheet, IncomeStmt(Cells(500), Cells(100)), EmptyFrame,
              IncomeStmt(Cells(450), Cells(90)), CashFlow(Cells(25)), CashFlow(Cells(40))) :
        cash \in CashVals, sti \in StiVals}

\* the band the thresholds good and fair (in tenths) give the value
\* num / den, den > 0, of a ratio that is better when higher or when lower
BandIs(band, num, den, good, fair, higher) ==
    IF higher
    THEN /\ band = "Strong" <=> num * 10 >= good * den
         /\ band = "Fair" <=> (fair * den <= num * 10 /\ num * 10 < good * den)
         /\ band = "Weak" <=> num * 10 < fair * den
    ELSE /\ band = "Strong" <=> num * 10 <= good * den
         /\ band = "Fair" <=> (good * den < num * 10 /\ num * 10 <= fair * den)
         /\ band = "Weak" <=> num * 10 > fair * den

\* C18: the band of every ratio that has a value follows from the fixed
\* thresholds of its name: for a ratio better when higher, Strong iff
\* value >= good, Fair iff fair <= value < good, Weak iff value < fair; for
\* one better when lower, Strong iff value <= good, Fair iff
\* good < value <= fair, Weak iff value > fair; the current ratio has good
\* 1.5 and fair 1.0; and current assets 150, current liabilities 100 and
\* inventory 30 give a current ratio of 1.5, Strong, and a quick ratio of
\* 1.2, Strong
C18_BandFromFixedThresholds ==
    (RatioCalled /\ ratio.out.status = "ok") =>
        /\ \A g \in RatioGroups : \A k \in RatioNames[g] :
                (k \in DOMAIN ratio.out.ratios[g] /\ ~ratio.out.ratios[g][k].value.null) =>
                    BandIs(ratio.out.ratios[g][k].band,
                           ratio.out.ratios[g][k].value.num,
                           ratio.out.ratios[g][k].value.den,
                           BandRules[k].good, BandRules[k].fair,
                           BandRules[k].higher_is_better)
        /\ ("current_ratio" \in DOMAIN ratio.out.ratios["Liquidity"]
                /\ ~ratio.out.ratios["Liquidity"]["current_ratio"].value.null) =>
                    BandIs(ratio.out.ratios["Liquidity"]["current_ratio"].band,
                           ratio.out.ratios["Liquidity"]["current_ratio"].value.num,
                           ratio.out.ratios["Liquidity"]["current_ratio"].value.den,
                           15, 10, TRUE)
        /\ ratio.in \in ExampleSnapshots =>
                /\ ratio.out.ratios["Liquidity"]["current_ratio"]
                        = [value |-> Quot(150, 100), band |-> "Strong"]
                /\ ratio.out.ratios["Liquidity"]["quick_ratio"]
                        = [value |-> Quot(120, 100), band |-> "Strong"]

\* the assessment of the example: the current ratio sits on its threshold of
\* 1.5 and is Strong, the debt ratio of 0.5 sits on its own and is Strong
\* too, and the debt to equity of 1.2 is Fair
C18_Witness ==
    /\ RatioCalled /\ ratio.out.status = "ok"
    /\ ratio.in \in ExampleSnapshots
    /\ ratio.out.ratios["Liquidity"]["current_ratio"].band = "Strong"
    /\ ratio.out.ratios["Solvency"]["debt_ratio"].value = Quot(200, 400)
    /\ ratio.out.ratios["Solvency"]["debt_ratio"].band = "Strong"
    /\ ratio.out.ratios["Solvency"]["debt_to_equity"].band = "Fair"

\* the figures compute_ratios_for_ticker reads from the statements of snap
Extracted(snap) ==
    Metrics(IF Missing(snap["quarterly_balance_sheet"])
            THEN snap["balance_sheet"] ELSE snap["quarterly_balance_sheet"],
            IF Missing(snap["quarterly_financials"])
            THEN snap["quarterly_income_stmt"] ELSE snap["quarterly_financials"],
            snap["income_stmt"], snap["quarterly_cashflow"], snap["cashflow"])

\* the numerator and the denominator of each ratio that is a division
Dividends(m) ==
    [current_ratio |-> m.current_assets,
     quick_ratio |-> QuickAssets(m.current_assets, m.inventory),
     cash_ratio |-> m.cash_like,
     debt_to_equity |-> m.total_debt,
     debt_ratio |-> m.total_liabilities]
Divisors(m) ==
    [current_ratio |-> m.current_liabilities,
     quick_ratio |-> m.current_liabilities,
     cash_ratio |-> m.current_liabilities,
     debt_to_equity |-> m.equity,
     debt_ratio |-> m.total_assets]

NullOrZero(x) == x.null \/ x.v = 0

\* a ratio of the assessment whose numerator or denominator is null or zero
\* is null
NullOnNullOrZero(ratios, nums, dens) ==
    \A g \in RatioGroups : \A k \in RatioNames[g] \cap DOMAIN nums :
        (k \in DOMAIN ratios[g] /\ (NullOrZero(nums[k]) \/ NullOrZero(dens[k])))
            => ratios[g][k].value.null

\* C19: each of the ratios current, quick, cash, debt_to_equity and
\* debt_ratio is null whenever its numerator is null or zero, and whenever
\* its denominator is null or zero
C19_RatioNullOnNullOrZeroOperand ==
    (RatioCalled /\ ratio.out.status = "ok") =>
        NullOnNullOrZero(ratio.out.ratios, Dividends(Extracted(ratio.in)),
                         Divisors(Extracted(ratio.in)))

\* a ratio whose numerator is null, or whose denominator is null or zero, is
\* null
NullOnMissing(ratios, nums, dens) ==
    \A g \in RatioGroups : \A k \in RatioNames[g] \cap DOMAIN nums :
        (k \in DOMAIN ratios[g] /\ (nums[k].null \/ NullOrZero(dens[k])))
            => ratios[g][k].value.null

\* the part of C19 about the denominator, and about a numerator that is null
C19_RatioNullOnMissingOperand ==
    (RatioCalled /\ ratio.out.status = "ok") =>
        NullOnMissing(ratio.out.ratios, Dividends(Extracted(ratio.in)),
                      Divisors(Extracted(ratio.in)))

\* the coverage e of the EBIT and the interest expense: null and N/A without
\* an interest expense or without EBIT, else EBIT / |interest expense|
CoverageIs(e, ebit, interest_expense) ==
    IF interest_expense.null \/ interest_expense.v = 0 \/ ebit.null
    THEN e.value.null /\ e.band = "N/A"
    ELSE /\ ~e.value.null /\ e.value.den > 0
         /\ e.value.num * (IF interest_expense.v < 0 THEN -interest_expense.v
                            ELSE interest_expense.v)
                = ebit.v * e.value.den
         /\ e.value.num >= 0 <=> ebit.v >= 0

\* C20: interest_coverage is null with band N/A, and no exception is
\* raised, whenever the interest expense is 0 or null or EBIT is null;
\* otherwise it is EBIT divided by the absolute value of the interest
\* expense, so that an interest expense reported as a negative number never
\* changes the sign of the coverage
C20_InterestCoverageByAbsoluteExpense ==
    (RatioCalled /\ ~FetchFails(ratio.in)) =>
        /\ ratio.out.status = "ok"
        /\ "interest_coverage" \in DOMAIN ratio.out.ratios["Solvency"] =>
                CoverageIs(ratio.out.ratios["Solvency"]["interest_coverage"],
                           Extracted(ratio.in).ebit, Extracted(ratio.in).interest_expense)

\* an EBIT of 500 against an interest expense reported as -50 has given a
\* coverage of 10, Strong
C20_Witness ==
    /\ RatioCalled /\ ratio.out.status = "ok"
    /\ "interest_coverage" \in DOMAIN ratio.out.ratios["Solvency"]
    /\ Extracted(ratio.in).ebit = Num(500)
    /\ Extracted(ratio.in).interest_expense = Num(-50)
    /\ ratio.out.ratios["Solvency"]["interest_coverage"]
            = [value |-> Quot(500, 50), band |-> "Strong"]

\* an EBIT of 500 against an interest expense of 0 has given no coverage
C20_ZeroExpenseReached ==
    /\ RatioCalled /\ ratio.out.status = "ok"
    /\ "interest_coverage" \in DOMAIN ratio.out.ratios["Solvency"]
    /\ Extracted(ratio.in).ebit = Num(500)
    /\ Extracted(ratio.in).interest_expense = Num(0)
    /\ ratio.out.ratios["Solvency"]["interest_coverage"].band = "N/A"

\* the balance sheet compute_ratios_for_ticker reads: the quarterly one, the
\* annual one when that is missing or empty
BalanceSheetOf(snap) ==
    IF Missing(snap["quarterly_balance_sheet"])
    THEN snap["balance_sheet"] ELSE snap["quarterly_balance_sheet"]

\* total_debt is the explicit figure when there is one, else the sum of
\* the components
DebtIs(total_debt, explicit, short_lt_debt, long_term_debt) ==
    IF ~explicit.null THEN total_debt = explicit
    ELSE total_debt = _sum_if_present(short_lt_debt, long_term_debt)

\* C21: total_debt is the explicit "total debt" figure whenever the balance
\* sheet has one, whatever its value, 0 included; the sum of the short-term
\* and the long-term debt is used only when there is no explicit figure
C21_TotalDebtPrefersExplicitFigure ==
    (RatioCalled /\ ratio.out.status = "ok" /\ ~Missing(BalanceSheetOf(ratio.in))) =>
        DebtIs(Extracted(ratio.in).total_debt,
               _latest_value_from_df(BalanceSheetOf(ratio.in), <<"total debt">>),
               _latest_value_from_df(BalanceSheetOf(ratio.in), <<"short long term debt",
                    "current portion of long term debt", "short-term debt">>),
               _latest_value_from_df(BalanceSheetOf(ratio.in), <<"long term debt">>))

\* the same for explicit figures that are not 0
DebtIsUnlessZero(total_debt, explicit, short_lt_debt, long_term_debt) ==
    (explicit.null \/ explicit.v # 0) =>
        DebtIs(total_debt, explicit, short_lt_debt, long_term_debt)

C21_TotalDebtPrefersNonZeroFigure ==
    (RatioCalled /\ ratio.out.status = "ok" /\ ~Missing(BalanceSheetOf(ratio.in))) =>
        DebtIsUnlessZero(Extracted(ratio.in).total_debt,
               _latest_value_from_df(BalanceSheetOf(ratio.in), <<"total debt">>),
               _latest_value_from_df(BalanceSheetOf(ratio.in), <<"short long term debt",
                    "current portion of long term debt", "short-term debt">>),
               _latest_value_from_df(BalanceSheetOf(ratio.in), <<"long term debt">>))

\* the quarterly income statement compute_ratios_for_ticker reads
IncomeOf(snap) ==
    IF Missing(snap["quarterly_financials"])
    THEN snap["quarterly_income_stmt"] ELSE snap["quarterly_financials"]

BalanceMetrics ==
    {"current_assets", "current_liabilities", "inventory", "cash_like",
     "total_assets", "total_liabilities", "equity", "total_debt"}

\* the figures m of the balance sheet are those, q, of the table that has
\* priority
SameBalanceMetrics(m, q) == \A f \in BalanceMetrics : m[f] = q[f]

\* the metrics of the quarterly balance sheet when it is there and not
\* empty, else of the annual one
QuarterlyFirst(quarterly, annual) ==
    Metrics(IF HasDf(quarterly) THEN quarterly ELSE annual,
            NoFrame, NoFrame, NoFrame, NoFrame)

\* with a quarterly table that is there and not empty the value of an
\* income metric is the one of that table
IncomeFromQuarterly(value, quarterly, aliases) ==
    HasDf(quarterly) => value = _latest_value_from_df(quarterly, aliases)

\* C23: for every metric the quarterly statement has priority over the
\* annual one: with a quarterly table that is there and not empty the value
\* of the metric is taken from it, and the annual table is consulted only
\* when the quarterly one is absent or empty, for the balance sheet metrics
\* and for EBIT and the interest expense of the income statement alike
C23_QuarterlyBeforeAnnual ==
    (RatioCalled /\ ratio.out.status = "ok" /\ ~Missing(BalanceSheetOf(ratio.in))) =>
        /\ SameBalanceMetrics(Extracted(ratio.in),
                QuarterlyFirst(ratio.in["quarterly_balance_sheet"], ratio.in["balance_sheet"]))
        /\ IncomeFromQuarterly(Extracted(ratio.in).ebit, IncomeOf(ratio.in), EbitAliases)
        /\ IncomeFromQuarterly(Extracted(ratio.in).interest_expense, IncomeOf(ratio.in),
                               InterestAliases)

\* the part of C23 about the balance sheet
C23_BalanceSheetQuarterlyFirst ==
    (RatioCalled /\ ratio.out.status = "ok" /\ ~Missing(BalanceSheetOf(ratio.in))) =>
        SameBalanceMetrics(Extracted(ratio.in),
            QuarterlyFirst(ratio.in["quarterly_balance_sheet"], ratio.in["balance_sheet"]))

(***************************************************************************)
(* The news analysis: news_agent.get_news_analysis.  A title or a link that *)
(* is missing is the empty string (the code tests both only for truth); a   *)
(* timestamp is null or a number of days since the epoch.  The titles and   *)
(* the links are ASCII without percent escapes.                             *)
(***************************************************************************)
\* the first place of the character c in s from place i on, 0 if there is none
RECURSIVE Find(_, _, _)
Find(s, c, i) ==
    IF i > Len(s) THEN 0
    ELSE IF SubSeq(s, i, i) = c THEN i ELSE Find(s, c, i + 1)

Before(s, c) == IF Find(s, c, 1) = 0 THEN s ELSE SubSeq(s, 1, Find(s, c, 1) - 1)
After(s, c) == IF Find(s, c, 1) = 0 THEN "" ELSE SubSeq(s, Find(s, c, 1) + 1, Len(s))

\* urlparse(link).query
QueryOf(link) == After(Before(link, "#"), "?")

\* parse_qs(query).get(key)[0]: the first value of key that is not blank
RECURSIVE QsGet(_, _)
QsGet(query, key) ==
    IF Len(query) = 0 THEN ""
    ELSE LET pair == Before(query, "&")
         IN  IF Before(pair, "=") = key /\ After(pair, "=") # ""
             THEN After(pair, "=")
             ELSE QsGet(After(query, "&"), key)

\* x or y, on strings
OrString(x, y) == IF x # "" THEN x ELSE y

_unwrap_gnews_link(link) ==
    IF link = "" THEN link
    ELSE IF ~Contains(link, "news.google.com") THEN link
    ELSE OrString(OrString(QsGet(QueryOf(link), "url"), QsGet(QueryOf(link), "u")), link)

Take(seq, n) == IF Len(seq) <= n THEN seq ELSE SubSeq(seq, 1, n)

Item(title, link, ts) == [title |-> title, link |-> link, providerPublishTime |-> ts]

\* an entry of a parsed feed: its title, its link, the href of its first
\* alternative link, whether its list of alternative links is there but
\* empty, and its publication time
FeedEntry(title, link, href, nolinks, ts) ==
    [title |-> title, link |-> link, href |-> href, nolinks |-> nolinks, ts |-> ts]

\* what a source gives: it raises, or it delivers entries
SourceRaises == [kind |-> "raise", entries |-> <<>>]
Delivers(entries) == [kind |-> "entries", entries |-> entries]

\* the loop of _fetch_google_news_rss over the entries: e.get("links", [{}])[0]
\* raises on an entry without link whose list of links is empty
EntryRaises(e) == e.link = "" /\ e.nolinks

\* if title and link: the item is appended
Appended(title, link, ts) ==
    IF title # "" /\ link # "" THEN <<Item(title, link, ts)>> ELSE <<>>

RECURSIVE EntryItems(_, _)
EntryItems(entries, i) ==
    IF i > Len(entries) THEN <<>>
    ELSE Appended(entries[i].title,
                  _unwrap_gnews_link(OrString(entries[i].link, entries[i].href)),
                  entries[i].ts)
            \o EntryItems(entries, i + 1)

\* _fetch_google_news_rss(query, language, k): raised, or the items
_fetch_google_news_rss(source, k) ==
    LET entries == Take(source.entries, k)
    IN  IF source.kind = "raise" \/ \E i \in 1..Len(entries) : EntryRaises(entries[i])
        THEN [raised |-> TRUE, items |-> <<>>]
        ELSE [raised |-> FALSE, items |-> EntryItems(entries, 1)]

\* the company suffixes of _CORP_SUFFIX_RE, in lower case without the final dot
CorpSuffixes ==
    {"inc", "incorporated", "corp", "corporation", "co", "ltd", "limited", "plc",
     "sa", "s.a", "nv", "n.v", "se", "ag", "kk", "gmbh", "llc", "lp", "holding",
     "holdings", "group", "company"}

DropDot(w) == IF Len(w) > 0 /\ SubSeq(w, Len(w), Len(w)) = "." THEN SubSeq(w, 1, Len(w) - 1) ELSE w

RECURSIVE JoinWords(_, _)
JoinWords(words, sep) ==
    IF Len(words) = 0 THEN ""
    ELSE IF Len(words) = 1 THEN words[1]
    ELSE words[1] \o sep \o JoinWords(Tail(words), sep)

\* _clean_company_name, on a name given by its words (letters and dots only)
_clean_company_name(words) ==
    LET kept == SelectSeq(words, LAMBDA w : Lower(DropDot(w)) \notin CorpSuffixes)
    IN  IF Len(kept) = 0 THEN JoinWords(words, " ") ELSE JoinWords(kept, " ")

TopicsEn == "announcement OR launch OR acquisition OR merger OR partnership OR investment OR regulatory OR lawsuit OR supply chain OR earnings call"
\* stands for the Korean topic clause
TopicsKo == "KO-TOPICS"

IsKo(language) == Len(Lower(language)) >= 2 /\ SubSeq(Lower(language), 1, 2) = "ko"

\* the queries without those met before, compared in lower case
RECURSIVE Uniq(_, _)
Uniq(q, i) ==
    IF i > Len(q) THEN <<>>
    ELSE (IF \E j \in 1..(i - 1) : Lower(q[j]) = Lower(q[i]) THEN <<>> ELSE <<q[i]>>)
            \o Uniq(q, i + 1)

_make_company_queries(words, symbol, language) ==
    LET base == JoinWords(words, " ")
        clean == _clean_company_name(words)
        other == clean # "" /\ Lower(clean) # Lower(base)
        topics == IF IsKo(language) THEN TopicsKo ELSE TopicsEn
        quote(x) == "\"" \o x \o "\""
    IN  Uniq((IF base # "" THEN <<quote(base)>> ELSE <<>>)
                \o (IF other THEN <<quote(clean)>> ELSE <<>>)
                \o (IF base # "" THEN <<quote(base) \o " (" \o topics \o ")">> ELSE <<>>)
                \o (IF other THEN <<quote(clean) \o " (" \o topics \o ")">> ELSE <<>>)
                \o (IF symbol # "" THEN <<symbol>> ELSE <<>>), 1)

\* except Exception: continue
Caught(got) ==
    IF got.raised THEN [raised |-> FALSE, skipped |-> TRUE, items |-> <<>>]
    ELSE [raised |-> FALSE, skipped |-> FALSE, items |-> got.items]

\* the fetch of one query with nothing around it: what it raises goes on
FetchUnguarded(source, k) ==
    [raised |-> _fetch_google_news_rss(source, k).raised, skipped |-> FALSE,
     items |-> _fetch_google_news_rss(source, k).items]

\* try: items.extend(_fetch_google_news_rss(...)) / except Exception: continue
TryFetch(source, k) == Caught(_fetch_google_news_rss(source, k))

\* the loop of _news_enriched over the queries: a query that raised is
\* passed over, and no further query is issued once k items are collected;
\* QueryTurn is the turn of the query i, got what its fetch gave
\* issued counts the queries that were sent
RECURSIVE QueryLoop(_, _, _, _)
RECURSIVE QueryTurn(_, _, _, _, _)
\* a loop that goes through every query, however many items it has
QueryTurnWithoutBreak(got, sources, i, items, k) ==
    IF got.raised THEN [raised |-> TRUE, items |-> items, issued |-> i]
    ELSE IF got.skipped THEN QueryLoop(sources, i + 1, items, k)
    ELSE QueryLoop(sources, i + 1, items \o got.items, k)

QueryTurn(got, sources, i, items, k) ==
    IF got.raised THEN [raised |-> TRUE, items |-> items, issued |-> i]
    ELSE IF got.skipped THEN QueryLoop(sources, i + 1, items, k)
    ELSE IF Len(items \o got.items) >= k
    THEN [raised |-> FALSE, items |-> items \o got.items, issued |-> i]
    ELSE QueryLoop(sources, i + 1, items \o got.items, k)

QueryLoop(sources, i, items, k) ==
    IF i > Len(sources) THEN [raised |-> FALSE, items |-> items, issued |-> i - 1]
    ELSE QueryTurn(TryFetch(sources[i], Max(20, k * 2)), sources, i, items, k)

\* the items of the ticker's own feed; nothing is kept of a feed that raises
RECURSIVE FeedItems(_, _)
FeedItems(arr, i) ==
    IF i > Len(arr) THEN <<>>
    ELSE Appended(arr[i].title, _unwrap_gnews_link(arr[i].link), arr[i].providerPublishTime)
            \o FeedItems(arr, i + 1)

\* the clean-up loop of _news_enriched: an item without title or link is
\* dropped, and so is one whose key (title.lower(), link) was seen, title
\* stripped and link unwrapped
RECURSIVE Dedup(_, _, _)
RECURSIVE DedupTurn(_, _, _, _, _, _)
DedupTurn(title, link, key, items, i, seen) ==
    IF title = "" \/ link = "" \/ key \in seen
    THEN Dedup(items, i + 1, seen)
    ELSE <<Item(title, link, items[i].providerPublishTime)>>
            \o Dedup(items, i + 1, seen \cup {key})

Dedup(items, i, seen) ==
    IF i > Len(items) THEN <<>>
    ELSE DedupTurn(Strip(items[i].title), _unwrap_gnews_link(items[i].link),
                   <<Lower(Strip(items[i].title)), _unwrap_gnews_link(items[i].link)>>,
                   items, i, seen)

\* x.get("providerPublishTime") or 0
TsOrZero(ts) == IF ts.null THEN 0 ELSE ts.v

\* clean.sort(key=..., reverse=True): the latest first, equal times in the
\* order they had
RECURSIVE SortByTime(_)
SortByTime(items) ==
    IF Len(items) = 0 THEN <<>>
    ELSE LET m == CHOOSE i \in 1..Len(items) :
                    /\ \A j \in 1..Len(items) :
                         TsOrZero(items[j].providerPublishTime) <= TsOrZero(items[i].providerPublishTime)
                    /\ \A j \in 1..(i - 1) :
                         TsOrZero(items[j].providerPublishTime) < TsOrZero(items[i].providerPublishTime)
         IN  <<items[m]>> \o SortByTime(SubSeq(items, 1, m - 1) \o SubSeq(items, m + 1, Len(items)))

\* _news_enriched(symbol, language, company_name, k): sources holds what each
\* query of the call gives, in the order of the queries, feed what the news
\* attribute of the ticker gives
\* lines 107-122: the clean-up of the items collected, the sort and the cut
CleanUp(items, k) == Take(SortByTime(Dedup(items, 1, {})), k)

\* lines 94-106: the items of the ticker's feed are added to those fetched
Merged(items, feed, k) ==
    IF feed.kind = "raise" THEN items
    ELSE items \o FeedItems(Take(feed.entries, Max(10, k)), 1)

\* what _news_enriched makes of the items fetched for the queries
Enriched(fetched, feed, k) ==
    [raised |-> fetched.raised,
     items |-> IF fetched.raised THEN <<>>
               ELSE CleanUp(Merged(fetched.items, feed, k), k)]

_news_enriched(sources, feed, k) == Enriched(QueryLoop(sources, 1, <<>>, k), feed, k)

(***************************************************************************)
(* analyze_news.  A sentiment is kept in units of 1e-4, a weight in units   *)
(* of 1e-3, a term or tag weight in tenths; the scores of the result are    *)
(* in units of 1e-3, as round(x, 3) reports them.                           *)
(***************************************************************************)
PosTermsEn ==
    << <<"beat", 10>>, <<"beats", 10>>, <<"surge", 10>>, <<"surges", 10>>, <<"jump", 9>>,
       <<"jumps", 9>>, <<"record", 8>>, <<"upgrade", 8>>, <<"raises", 7>>, <<"raise", 7>>,
       <<"strong", 6>>, <<"expand", 5>>, <<"expands", 5>>, <<"approval", 10>>,
       <<"approved", 10>>, <<"partnership", 6>>, <<"wins", 8>>, <<"win", 8>>,
       <<"profit", 6>>, <<"growth", 6>>, <<"upbeat", 6>> >>
NegTermsEn ==
    << <<"miss", -10>>, <<"misses", -10>>, <<"plunge", -10>>, <<"plunges", -10>>,
       <<"drop", -9>>, <<"drops", -9>>, <<"downgrade", -8>>, <<"cuts", -8>>, <<"cut", -8>>,
       <<"layoff", -9>>, <<"layoffs", -9>>, <<"lawsuit", -9>>, <<"recall", -9>>,
       <<"investigation", -8>>, <<"probe", -8>>, <<"warning", -7>>, <<"ban", -7>>,
       <<"halt", -7>>, <<"bankruptcy", -10>>, <<"fraud", -10>>, <<"scandal", -10>> >>

RECURSIVE TermScore(_, _, _)
TermScore(t, terms, i) ==
    IF i > Len(terms) THEN 0
    ELSE (IF Contains(t, terms[i][1]) THEN terms[i][2] ELSE 0) + TermScore(t, terms, i + 1)

\* math.tanh(x / 3.0) for x in tenths, in units of 1e-4
TanhTable == <<0, 333, 666, 997, 1325, 1651, 1974, 2292, 2605, 2913, 3215, 3511, 3799, 4081, 4355, 4621, 4879, 5129, 5370, 5603, 5828, 6044, 6251, 6450, 6640, 6823, 6997, 7163, 7321, 7472, 7616, 7752, 7882, 8005, 8122, 8232, 8337, 8435, 8529, 8617, 8701>>
Tanh3(x) == IF x >= 0 THEN TanhTable[x + 1] ELSE -TanhTable[-x + 1]

\* _score_title_sentiment; no Korean term occurs in an ASCII title
\* a score that leaves out the squashing and returns the sum of the terms
ScoreWithoutTanh(title, language) ==
    IF title = "" THEN 0
    ELSE IF IsKo(language) THEN 0
    ELSE 1000 * (TermScore(Lower(title), PosTermsEn, 1) + TermScore(Lower(title), NegTermsEn, 1))

_score_title_sentiment(title, language) ==
    IF title = "" THEN 0
    ELSE IF IsKo(language) THEN Tanh3(0)
    ELSE LET t == Lower(title)
         IN  Tanh3(TermScore(t, PosTermsEn, 1) + TermScore(t, NegTermsEn, 1))

Letters == {UpperToLower[c] : c \in DOMAIN UpperToLower}
Digits == {"0", "1", "2", "3", "4", "5", "6", "7", "8", "9"}
\* the characters \w matches, in a lower-case ASCII text
WordChars == Letters \cup Digits \cup {"_"}

\* re.search(r"\b(w)\b", title, flags=re.I), on the title in lower case
HasWord(t, w) ==
    \E i \in 1..(Len(t) - Len(w) + 1) :
        /\ SubSeq(t, i, i + Len(w) - 1) = w
        /\ i = 1 \/ SubSeq(t, i - 1, i - 1) \notin WordChars
        /\ i + Len(w) > Len(t) \/ SubSeq(t, i + Len(w), i + Len(w)) \notin WordChars

\* _IMPACT_TAGS: the words of each pattern, the name and the weight in tenths
ImpactTags ==
    << [words |-> {"earnings", "results", "eps", "revenue", "guidance", "outlook"},
        name |-> "Earnings/Guidance", w |-> 10],
       [words |-> {"acquisition", "acquires", "merger", "m&a", "deal"}, name |-> "M&A", w |-> 10],
       [words |-> {"partnership", "alliance", "collaboration"}, name |-> "Partnership", w |-> 7],
       [words |-> {"lawsuit", "legal", "settlement"}, name |-> "Legal", w |-> 8],
       [words |-> {"recall", "ban", "regulation", "approved", "approval"},
        name |-> "Regulatory", w |-> 9],
       [words |-> {"layoff", "job cuts", "restructuring"}, name |-> "Workforce", w |-> 7],
       [words |-> {"supply chain", "shortage", "disruption"}, name |-> "Supply chain", w |-> 7] >>

\* sorted(...) of the tag names
TagOrder == <<"Earnings/Guidance", "Legal", "M&A", "Partnership", "Regulatory",
              "Supply chain", "Workforce">>

\* the only alternative of _IMPACT_TAGS_KO an ASCII title can hold is m&a,
\* and those patterns have no word boundaries; t is the title in lower case
TagMatches(tag, t, language) ==
    IF IsKo(language) THEN tag.name = "M&A" /\ Contains(t, "m&a")
    ELSE \E w \in tag.words : HasWord(t, w)

_tag_impacts(title, language) ==
    LET t == Lower(title)
    IN  SelectSeq(TagOrder, LAMBDA n :
            \E i \in 1..Len(ImpactTags) :
                ImpactTags[i].name = n /\ TagMatches(ImpactTags[i], t, language))

RECURSIVE _impact_weight_for_tags(_)
_impact_weight_for_tags(tags) ==
    IF Len(tags) = 0 THEN 0
    ELSE (CHOOSE w \in 0..10 : \E i \in 1..Len(ImpactTags) :
                ImpactTags[i].name = tags[1] /\ ImpactTags[i].w = w)
            + _impact_weight_for_tags(Tail(tags))

_STOP_EN ==
    {"the", "a", "an", "and", "or", "for", "of", "to", "in", "on", "with", "at", "by",
     "from", "company", "inc", "corp", "co", "ltd", "plc", "group", "shares", "stock",
     "reports", "earnings", "news", "today", "update"}

\* re.sub(r"[^\w...\s\-]+", " ", s).split(): the runs of word characters and
\* hyphens
RECURSIVE Split(_, _, _)
Split(s, i, cur) ==
    IF i > Len(s) THEN (IF cur = "" THEN <<>> ELSE <<cur>>)
    ELSE IF SubSeq(s, i, i) \in WordChars \cup {"-"} THEN Split(s, i + 1, cur \o SubSeq(s, i, i))
    ELSE (IF cur = "" THEN <<>> ELSE <<cur>>) \o Split(s, i + 1, "")

IsDigit(t) == Len(t) > 0 /\ \A i \in 1..Len(t) : SubSeq(t, i, i) \in Digits

\* t.strip("-_")
RECURSIVE StripDash(_)
StripDash(t) ==
    IF Len(t) = 0 THEN t
    ELSE IF SubSeq(t, 1, 1) \in {"-", "_"} THEN StripDash(SubSeq(t, 2, Len(t)))
    ELSE IF SubSeq(t, Len(t), Len(t)) \in {"-", "_"} THEN StripDash(SubSeq(t, 1, Len(t) - 1))
    ELSE t

\* the order of Python on the strings of these characters
CharOrder == "-0123456789_abcdefghijklmnopqrstuvwxyz"
RECURSIVE StrLess(_, _)
StrLess(a, b) ==
    IF Len(b) = 0 THEN FALSE
    ELSE IF Len(a) = 0 THEN TRUE
    ELSE IF SubSeq(a, 1, 1) = SubSeq(b, 1, 1)
         THEN StrLess(SubSeq(a, 2, Len(a)), SubSeq(b, 2, Len(b)))
    ELSE Find(CharOrder, SubSeq(a, 1, 1), 1) < Find(CharOrder, SubSeq(b, 1, 1), 1)

Count(seq, x) == Cardinality({i \in 1..Len(seq) : seq[i] = x})

\* sorted(freq.items(), key=lambda x: (-x[1], x[0])): the keys
RECURSIVE ByFrequency(_, _)
ByFrequency(seq, keys) ==
    IF keys = {} THEN <<>>
    ELSE LET m == CHOOSE x \in keys : \A y \in keys \ {x} :
                    \/ Count(seq, x) > Count(seq, y)
                    \/ Count(seq, x) = Count(seq, y) /\ StrLess(x, y)
         IN  <<m>> \o ByFrequency(seq, keys \ {m})

Range(seq) == {seq[i] : i \in 1..Len(seq)}

RECURSIVE StripEach(_)
StripEach(toks) ==
    IF Len(toks) = 0 THEN <<>> ELSE <<StripDash(toks[1])>> \o StripEach(Tail(toks))

\* no Korean stop word is an ASCII token
_extract_keywords(title, language) ==
    IF title = "" THEN <<>>
    ELSE LET raw == SelectSeq(Split(Lower(title), 1, ""),
                              LAMBDA t : Len(t) >= 2 /\ Len(t) <= 20 /\ ~IsDigit(t))
             kept == SelectSeq(StripEach(raw), LAMBDA t : IsKo(language) \/ t \notin _STOP_EN)
         IN  Take(ByFrequency(kept, Range(kept)), 5)

\* math.exp(-age_days / 7.0) for a whole number of days, in units of 1e-3;
\* it is 0.0 from some 5300 days on
ExpTable == <<1000, 867, 751, 651, 565, 490, 424, 368, 319, 276, 240, 208, 180, 156, 135>>
Weight(age_days) == IF age_days > 5300 THEN 0 ELSE ExpTable[age_days + 1]

\* an age that takes an unknown timestamp for the epoch
AgeDaysFromEpoch(ts, now) == Max(0, now - ts)

\* lines 220-223: the age in days of an item stamped ts (0 when unknown)
AgeDays(ts, now) == IF ts # 0 THEN Max(0, now - ts) ELSE 0

\* a / b to the nearest unit
RoundDiv(a, b) ==
    IF a >= 0 THEN (2 * a + b) \div (2 * b) ELSE -((2 * (-a) + b) \div (2 * b))

SentimentLabel(sent) == IF sent > 1500 THEN "pos" ELSE IF sent < -1500 THEN "neg" ELSE "neu"

NeutralAnalysis ==
    [overall |-> [score |-> 0, label |-> "neutral", pos |-> 0, neg |-> 0, neu |-> 0,
                  impact_score |-> 0, top_keywords |-> <<>>],
     items |-> <<>>]

\* one turn of the loop of analyze_news: the row of the item, and what the
\* item adds to w_sum, w_score and w_impact
Scored(it, language, now) ==
    LET title == Strip(it.title)
        ts == TsOrZero(it.providerPublishTime)
        sent == _score_title_sentiment(title, language)
        tags == _tag_impacts(title, language)
        w == Weight(AgeDays(ts, now))
    IN  [row |-> [title |-> title, link |-> it.link, ts |-> ts,
                  sentiment |-> RoundDiv(sent, 10), label |-> SentimentLabel(sent),
                  impact_tags |-> tags, keywords |-> _extract_keywords(title, language)],
         w |-> w, w_score |-> w * sent,
         w_impact |-> w * (sent + 200 * _impact_weight_for_tags(tags))]

RECURSIVE ScoredAll(_, _, _)
ScoredAll(items, language, now) ==
    IF Len(items) = 0 THEN <<>>
    ELSE <<Scored(items[1], language, now)>> \o ScoredAll(Tail(items), language, now)

RECURSIVE Rows(_)
Rows(scored) == IF Len(scored) = 0 THEN <<>> ELSE <<scored[1].row>> \o Rows(Tail(scored))

RECURSIVE Keywords(_)
Keywords(rows) == IF Len(rows) = 0 THEN <<>> ELSE rows[1].keywords \o Keywords(Tail(rows))

RECURSIVE Titles(_)
Titles(rows) == IF Len(rows) = 0 THEN <<>> ELSE <<rows[1].title>> \o Titles(Tail(rows))

RECURSIVE Total(_, _)
Total(scored, field) ==
    IF Len(scored) = 0 THEN 0 ELSE scored[1][field] + Total(Tail(scored), field)

Labelled(rows, lbl) == Cardinality({i \in 1..Len(rows) : rows[i].label = lbl})

\* the aggregate of analyze_news over the scored items; avg and
\* impact_score are quotients by w_sum, compared and rounded as such
Overall(scored, rows, all_kw) ==
    LET w_sum == Total(scored, "w")
        w_score == IF w_sum # 0 THEN Total(scored, "w_score") ELSE 0
        w_impact == IF w_sum # 0 THEN Total(scored, "w_impact") ELSE 0
        den == IF w_sum # 0 THEN w_sum ELSE 1
    IN  [score |-> RoundDiv(w_score, 10 * den),
         label |-> IF w_score > 1500 * den THEN "bullish"
                   ELSE IF w_score < -1500 * den THEN "bearish" ELSE "mixed",
         pos |-> Labelled(rows, "pos"), neg |-> Labelled(rows, "neg"),
         neu |-> Labelled(rows, "neu"),
         impact_score |-> RoundDiv(w_impact, 10 * den),
         top_keywords |-> Take(ByFrequency(all_kw, Range(all_kw)), 10)]

\* the result of analyze_news over the scored items and their rows
Analysis(scored, rows) == [overall |-> Overall(scored, rows, Keywords(rows)), items |-> rows]

AnalysisOf(scored) == Analysis(scored, Rows(scored))

\* analyze_news(items, language) at the day now
analyze_news(items, language, now) ==
    IF Len(items) = 0 THEN NeutralAnalysis ELSE AnalysisOf(ScoredAll(items, language, now))

\* summarize_media(na, language): the headlines of the items through the
\* language model, or the first three joined; without items the summary of
\* summarize_ib.  The texts the language model and the rule write stand as
\* LLM-TEXT and RULE-SUMMARY.
summarize_media(na, llm_ok) ==
    IF llm_ok THEN "LLM-TEXT"
    ELSE IF Len(na.items) = 0 THEN "RULE-SUMMARY"
    ELSE JoinWords(Take(Titles(na.items), 3), " / ")

\* _save_keywords: the rows written to the keyword store; a failure of the
\* store is swallowed
_save_keywords(na, db_ok) ==
    LET all_kw == SelectSeq(Keywords(na.items), LAMBDA x : x # "")
    IN  IF ~db_ok THEN {}
        ELSE {[keyword |-> x, count |-> Count(all_kw, x), label |-> na.overall.label,
               score |-> na.overall.score] : x \in Range(all_kw)}

\* get_news_analysis(ticker, language, company_name, k)
NewsResult(na, llm_ok, db_ok) ==
    [status |-> "ok", overall |-> na.overall, items |-> na.items,
     summary |-> summarize_media(na, llm_ok), note |-> summarize_media(na, llm_ok),
     saved |-> _save_keywords(na, db_ok)]

\* what get_news_analysis makes of the items of _news_enriched
NewsAnswer(fetched, inp) ==
    IF fetched.raised THEN [status |-> "raised"]
    ELSE NewsResult(analyze_news(fetched.items, inp.language, inp.now),
                    inp.llm_ok, inp.db_ok)

get_news_analysis(inp) == NewsAnswer(_news_enriched(inp.sources, inp.feed, inp.k), inp)

(***************************************************************************)
(* What the sources of one call may give.                                   *)
(***************************************************************************)
EntryBeats ==
    FeedEntry("Acme beats estimates",
              "https://news.google.com/rss/articles/a1?url=https://a.example/1&hl=en",
              "", FALSE, Num(19000))
EntryLawsuit ==
    FeedEntry("Acme faces lawsuit over recall", "", "https://b.example/2", FALSE, Num(18993))
\* the same article again, under a wrapped link and another spelling
EntryLawsuitAgain ==
    FeedEntry(" ACME Faces Lawsuit Over Recall ",
              "https://news.google.com/articles/b2?hl=en&u=https://b.example/2",
              "", FALSE, Num(18999))
EntryUpdate == FeedEntry("Acme update", "https://c.example/3", "", FALSE, None)
\* an entry without link whose list of alternative links is empty
EntryBroken == FeedEntry("Acme wins approval", "", "", TRUE, Num(19000))

QueryOutcomes ==
    {SourceRaises, Delivers(<<>>), Delivers(<<EntryBeats, EntryLawsuit>>),
     Delivers(<<EntryLawsuitAgain, EntryUpdate>>), Delivers(<<EntryBeats, EntryBroken>>)}

\* the news attribute of the ticker: it raises, it is empty, or it holds items
FeedOutcomes ==
    {SourceRaises, Delivers(<<>>),
     Delivers(<<Item("Acme record earnings growth", "https://d.example/4", Num(19000)),
                Item("  ", "https://e.example/5", Num(19000)),
                Item("Acme update", "https://c.example/3", Num(1)),
                Item("Acme M&A deal-talk", "", Num(19000))>>)}

Companies == {<<>>, <<"Acme">>, <<"Acme", "Inc.">>}
Languages == {"en", "ko"}
Limits == {2, 40}
\* the language model and the keyword store: both answer, or neither does
Services == {[llm_ok |-> TRUE, db_ok |-> TRUE], [llm_ok |-> FALSE, db_ok |-> FALSE]}

\* the queries of a call: those of the company name, or the ticker alone
QueriesOf(company, symbol, language) ==
    IF company = <<>> THEN <<symbol>> ELSE _make_company_queries(company, symbol, language)

\* with five queries only two outcomes each, to keep the calls few
OutcomesFor(n) ==
    IF n <= 3 THEN QueryOutcomes ELSE {SourceRaises, Delivers(<<EntryBeats, EntryLawsuit>>)}

NewsInput(company, language, queries, k, sources, feed, llm_ok, db_ok) ==
    [company |-> company, symbol |-> "ACME", language |-> language, k |-> k,
     queries |-> queries,
     sources |-> sources, feed |-> feed, now |-> 19000,
     llm_ok |-> llm_ok, db_ok |-> db_ok]

\* a caller asks for the news analysis of a ticker
GetNewsAnalysis ==
    /\ news = IdleNews
    /\ \E company \in Companies, language \in Languages :
        LET queries == QueriesOf(company, "ACME", language)
        IN  \E sources \in [1..Len(queries) -> OutcomesFor(Len(queries))],
               feed \in FeedOutcomes, k \in Limits, up \in Services :
                LET inp == NewsInput(company, language, queries, k, sources, feed,
                                     up.llm_ok, up.db_ok)
                IN  news' = [entry |-> "get_news_analysis", in |-> inp,
                             out |-> get_news_analysis(inp)]
    /\ UNCHANGED <<cacheVars, pred, ratio>>

\* the answer has been delivered; the next request may come
NewsReturn ==
    /\ news # IdleNews
    /\ news' = IdleNews
    /\ UNCHANGED <<cacheVars, pred, ratio>>

NewsNext ==
    \/ GetNewsAnalysis
    \/ NewsReturn

SpecNews == Init /\ [][NewsNext]_vars

(***************************************************************************)
(* The claims about the news analysis.                                     *)
(***************************************************************************)
NewsCalled == news.entry # "none"

\* a query of the call fails: its fetch raises, at once or on an entry
QueryFails(inp, i) == _fetch_google_news_rss(inp.sources[i], Max(20, inp.k * 2)).raised

\* the same call with every failing source giving nothing instead
Healed(inp) ==
    [inp EXCEPT
        !.sources = [i \in 1..Len(inp.sources) |->
                        IF QueryFails(inp, i) THEN Delivers(<<>>) ELSE inp.sources[i]],
        !.feed = IF inp.feed.kind = "raise" THEN Delivers(<<>>) ELSE inp.feed]

\* C7: get_news_analysis never raises, whichever of its queries and whether
\* or not the ticker's feed fail: its result is the one it gives when each
\* failing source delivers nothing, so it is built from the items of the
\* other sources; and when no item is left the aggregate is the neutral one
\* (score 0, impact_score 0, all counts 0, no keywords, no items)
C7_NewsNeverRaises ==
    NewsCalled =>
        /\ news.out.status = "ok"
        /\ news.out = get_news_analysis(Healed(news.in))
        /\ Len(news.out.items) = 0 => news.out.overall = NeutralAnalysis.overall

\* a query raised, another failed on a broken entry, the feed raised, and
\* the result holds the items of the query that answered
C7_Witness ==
    /\ NewsCalled
    /\ news.out.status = "ok"
    /\ \E i \in 1..Len(news.in.sources) : news.in.sources[i].kind = "raise"
    /\ \E i \in 1..Len(news.in.sources) :
            news.in.sources[i].kind = "entries" /\ QueryFails(news.in, i)
    /\ news.in.feed.kind = "raise"
    /\ Len(news.out.items) > 0
    /\ news.out.overall.label # "neutral"

\* C16: for every item set, the overall sentiment score analyze_news returns
\* lies within [-1, 1] (here in units of 1e-3), and so does the sentiment of
\* every item
C16_SentimentWithinUnitInterval ==
    (NewsCalled /\ news.out.status = "ok") =>
        /\ news.out.overall.score >= -1000 /\ news.out.overall.score <= 1000
        /\ \A i \in 1..Len(news.out.items) :
                news.out.items[i].sentiment >= -1000 /\ news.out.items[i].sentiment <= 1000

\* an analysis with a title of two negative terms (their sum is -1.8, its
\* sentiment -0.537), one of two positive terms (1.4, 0.436), and an overall
\* score that is not 0
C16_Witness ==
    /\ NewsCalled /\ news.out.status = "ok"
    /\ \E i \in 1..Len(news.out.items) : news.out.items[i].sentiment = -537
    /\ \E i \in 1..Len(news.out.items) : news.out.items[i].sentiment = 436
    /\ news.out.overall.score # 0

(***************************************************************************)
(* The clean-up and the decay weight on their own: lines 107-122 on every   *)
(* list of up to MaxItems items, the weight on every timestamp.             *)
(***************************************************************************)
MaxItems == 3

\* items as the fetch loops hand them to the clean-up: the same article
\* under its own link, wrapped once and wrapped twice, an item whose title
\* is blank and one without link
CleanItems ==
    {Item("Acme beats", "https://a.example/1", Num(18995)),
     Item(" ACME Beats ", "https://news.google.com/x?url=https://a.example/1", Num(18997)),
     Item("Acme beats",
          "https://news.google.com/x?url=https://news.google.com/y?url=https://a.example/1",
          None),
     Item("  ", "https://b.example/2", Num(18993)),
     Item("Acme update", "", Num(18999))}

ItemLists == UNION {[1..n -> CleanItems] : n \in 0..MaxItems}

\* the timestamps of an item: unknown, of the last fortnight, of the coming
\* week, and old ones
Stamps ==
    {None, Num(0), Num(1), Num(13000), Num(19005)} \cup {Num(19000 - a) : a \in 0..14}
Nows == {19000}

\* lines 107-122 of _news_enriched on the items collected
CleanUpCall ==
    /\ news = IdleNews
    /\ \E items \in ItemLists, k \in Limits :
        news' = [entry |-> "clean-up", in |-> [items |-> items, k |-> k],
                 out |-> CleanUp(items, k)]
    /\ UNCHANGED <<cacheVars, pred, ratio>>

\* lines 211 and 220-224 of analyze_news on one item
WeightCall ==
    /\ news = IdleNews
    /\ \E ts \in Stamps, now \in Nows :
        news' = [entry |-> "weight", in |-> [providerPublishTime |-> ts, now |-> now],
                 out |-> [age_days |-> AgeDays(TsOrZero(ts), now),
                          w |-> Weight(AgeDays(TsOrZero(ts), now))]]
    /\ UNCHANGED <<cacheVars, pred, ratio>>

\* lines 80-106 of _news_enriched: the queries sent, the items they gave
\* and the items after the ticker's feed was added
FetchCall ==
    /\ news = IdleNews
    /\ \E company \in Companies, language \in Languages :
        LET queries == QueriesOf(company, "ACME", language)
        IN  \E sources \in [1..Len(queries) -> OutcomesFor(Len(queries))],
               feed \in FeedOutcomes, k \in Limits :
                news' = [entry |-> "fetch",
                         in |-> [company |-> company, symbol |-> "ACME",
                                 language |-> language, k |-> k, queries |-> queries,
                                 sources |-> sources, feed |-> feed],
                         out |-> [issued |-> QueryLoop(sources, 1, <<>>, k).issued,
                                  fetched |-> Len(QueryLoop(sources, 1, <<>>, k).items),
                                  merged |-> Len(Merged(QueryLoop(sources, 1, <<>>, k).items,
                                                        feed, k))]]
    /\ UNCHANGED <<cacheVars, pred, ratio>>

NewsPartsNext ==
    \/ CleanUpCall
    \/ WeightCall
    \/ FetchCall
    \/ NewsReturn

SpecNewsParts == Init /\ [][NewsPartsNext]_vars

\* the identity key of an item, and whether it has a title and a link
KeyOf(it) == <<Lower(Strip(it.title)), _unwrap_gnews_link(it.link)>>
HasTitleAndLink(it) == Strip(it.title) # "" /\ _unwrap_gnews_link(it.link) # ""

\* the items a list gives: of each key, the first item that has a title and
\* a link, its title trimmed and its link canonical
FirstOfKey(items) ==
    {Item(Strip(items[i].title), _unwrap_gnews_link(items[i].link),
          items[i].providerPublishTime) :
        i \in {i \in 1..Len(items) :
                /\ HasTitleAndLink(items[i])
                /\ \A j \in 1..(i - 1) : KeyOf(items[j]) # KeyOf(items[i])}}

\* the clean-up keeps the first item of each key and nothing else
C15_KeepsFirstOfEachKey ==
    news.entry = "clean-up" =>
        /\ Range(news.out) \subseteq FirstOfKey(news.in.items)
        /\ Len(news.out) = Cardinality(Range(news.out))
        /\ news.in.k >= Len(news.in.items) => Range(news.out) = FirstOfKey(news.in.items)
        /\ \A i \in 1..Len(news.out) : news.out[i].title # "" /\ news.out[i].link # ""

\* C15: the clean-up of the news fetch keeps exactly one item, the first, per
\* identity key (title trimmed and in lower case, link canonical), drops
\* every item without a title or without a link, and is idempotent: applied
\* to its own output it returns that output unchanged, whatever the items,
\* those with redirect-wrapped links included
C15_DedupKeepsFirstAndIsIdempotent ==
    news.entry = "clean-up" =>
        /\ Range(news.out) \subseteq FirstOfKey(news.in.items)
        /\ Len(news.out) = Cardinality(Range(news.out))
        /\ news.in.k >= Len(news.in.items) => Range(news.out) = FirstOfKey(news.in.items)
        /\ \A i \in 1..Len(news.out) : news.out[i].title # "" /\ news.out[i].link # ""
        /\ CleanUp(news.out, news.in.k) = news.out

\* the ages the model has a weight for
Ages == {AgeDays(TsOrZero(ts), now) : ts \in Stamps, now \in Nows}

\* the weight of an item of unknown timestamp, and of one of age 0, is 1
FullWeightAtZero ==
    /\ TsOrZero(news.in.providerPublishTime) = 0 => news.out.age_days = 0
    /\ news.out.age_days = 0 => news.out.w = 1000

Priority(base, clean, topics, symbol) ==
    << "\"" \o base \o "\"", "\"" \o clean \o "\"",
       "\"" \o base \o "\" (" \o topics \o ")",
       "\"" \o clean \o "\" (" \o topics \o ")", symbol >>

\* queries is the priority list without its repeats
InPriorityOrder(queries, priority) ==
    /\ \A i, j \in 1..Len(queries) : Lower(queries[i]) = Lower(queries[j]) => i = j
    /\ {Lower(x) : x \in Range(queries)} = {Lower(x) : x \in Range(priority)}
    /\ \A i, j \in 1..Len(queries) :
            i < j => \E a, b \in 1..Len(priority) :
                        /\ a < b /\ priority[a] = queries[i] /\ priority[b] = queries[j]
                        /\ \A c \in 1..(a - 1) : Lower(priority[c]) # Lower(queries[i])

\* the items the queries 1..j gave together, a failing query none
RECURSIVE GivenBy(_, _, _)
GivenBy(sources, j, k) ==
    IF j = 0 THEN 0
    ELSE GivenBy(sources, j - 1, k)
            + (IF _fetch_google_news_rss(sources[j], Max(20, k * 2)).raised THEN 0
               ELSE Len(_fetch_google_news_rss(sources[j], Max(20, k * 2)).items))

\* the entries of the feed that are merged: those with a title and a link
\* among the first max(10, k)
FeedValid(feed, k) ==
    IF feed.kind = "raise" THEN 0
    ELSE Cardinality({i \in 1..Len(Take(feed.entries, Max(10, k))) :
                        feed.entries[i].title # "" /\ feed.entries[i].link # ""})

\* C26: with a company name the queries are sent in the order of their
\* priority (name in quotes, cleaned name in quotes, name with topics,
\* cleaned name with topics, the ticker last, repeats removed) and no
\* query is sent once limit items are collected, so that the ticker is
\* queried only when the queries by name gave fewer than limit items
\* together; the ticker's feed is read in every run, however many items
\* were collected
C26_QueriesInPriorityUntilLimit ==
    (news.entry = "fetch" /\ news.in.company # <<>>) =>
        /\ InPriorityOrder(news.in.queries,
                Priority(JoinWords(news.in.company, " "),
                         _clean_company_name(news.in.company),
                         IF IsKo(news.in.language) THEN TopicsKo ELSE TopicsEn,
                         news.in.symbol))
        /\ news.in.queries[Len(news.in.queries)] = news.in.symbol
        /\ \A j \in 1..Len(news.in.queries) :
                j <= news.out.issued
                    <=> (j = 1 \/ GivenBy(news.in.sources, j - 1, news.in.k) < news.in.k)
        /\ news.out.fetched = GivenBy(news.in.sources, news.out.issued, news.in.k)
        /\ news.out.merged = news.out.fetched + FeedValid(news.in.feed, news.in.k)

\* the first query by name of "Acme" gave two items and the limit is 2: one
\* query was sent, the ticker was not queried, and the three entries of the
\* feed that have a title and a link were added
C26_Witness ==
    /\ news.entry = "fetch" /\ news.in.company = <<"Acme">> /\ news.in.k = 2
    /\ Len(news.in.queries) = 3
    /\ news.out.issued = 1 /\ news.out.fetched = 2 /\ news.out.merged = 5

(***************************************************************************)
(* The manager: llm_agent.run_manager, on top of run_query, predict_one    *)
(* and its own fallback predictor (the routine of predict_agent.py under   *)
(* another roof).  Its news part catches what the fetch raises and         *)
(* analyses what is left, and plays no part below.                         *)
(***************************************************************************)
\* val(node) is None: the ratio is missing from its group or has no value
NoValue(group, k) == k \notin DOMAIN group \/ group[k].value.null

\* _ib_style_summary_rule: the sentence on the balance sheet formats de, dr
\* and ic with :.2f, which raises TypeError on None
_ib_style_summary_rule(ratios) ==
    IF \/ NoValue(ratios["Solvency"], "debt_to_equity")
       \/ NoValue(ratios["Solvency"], "debt_ratio")
       \/ NoValue(ratios["Solvency"], "interest_coverage")
    THEN [raised |-> TRUE, text |-> "none"]
    ELSE [raised |-> FALSE,
          text |-> IF NoValue(ratios["Liquidity"], "current_ratio")
                        \/ NoValue(ratios["Liquidity"], "quick_ratio")
                   THEN "rule: liquidity limited" ELSE "rule: liquidity and solvency"]

\* lines 470-473: the note of the language model, or the rule-based one
\* when the model is missing, fails or says nothing; llm is what the model
\* does
Summary(llm, ratios) ==
    IF llm = "text" THEN [raised |-> FALSE, text |-> "llm"]
    ELSE _ib_style_summary_rule(ratios)

\* the prediction of lines 440-441 and 446-447 when both predictors fail
ErrorPrediction(importable) ==
    [status |-> "error", signal |-> "HOLD",
     error |-> IF importable THEN "predict_failed; fallback_failed"
               ELSE "predict_import_failed; fallback_failed"]

\* lines 432-447: predict_one, the fallback when it raises or cannot be
\* imported, the error dict when the fallback raises too
ManagerPrediction(importable, core, fallback) ==
    IF importable /\ core.status = "ok" THEN core
    ELSE IF fallback.status = "ok" THEN fallback
    ELSE ErrorPrediction(importable)

\* lines 427-487 on what run_query gave, ana
Managed(ana, prediction, summary) ==
    IF ana.status = "raised" \/ summary.raised THEN [status |-> "raised"]
    ELSE [status |-> "ok", ratios |-> ana.ratios, notes |-> ana.notes,
          prediction |-> prediction, summary |-> summary.text]

run_manager(snap, n, importable, llm) ==
    Managed(run_query(snap),
            ManagerPrediction(importable,
                              PredictCore(n, 1, TRUE, 200, 150000, 0),
                              PredictFallback(n, 200, -150000)),
            IF run_query(snap).status = "raised" THEN [raised |-> TRUE, text |-> "none"]
            ELSE Summary(llm, run_query(snap).ratios))

\* the statements of a run: those of IncomeSnapshots, and a ticker without
\* any balance sheet
ManagerSnapshots ==
    IncomeSnapshots \cup
    {Snapshot(NoFrame, EmptyFrame, IncomeStmt(Cells(500), Cells(100)), EmptyFrame,
              IncomeStmt(Cells(450), Cells(90)), CashFlow(Cells(25)), CashFlow(Cells(40)))}
\* histories with no close, with too few for either predictor, with enough
\* for the fallback only, and with enough for both
ManagerCloses == {0, 10, 30, MaxCloses}
\* the language model answers, is missing or answers nothing, or fails
LlmOutcomes == {"text", "none", "raise"}

\* POST /manager: run_manager
RunManager ==
    /\ ratio = IdleRatio
    /\ \E snap \in ManagerSnapshots, n \in ManagerCloses, importable \in BOOLEAN,
          llm \in LlmOutcomes :
        ratio' = [entry |-> "run_manager",
                  in |-> [snap |-> snap, n |-> n, importable |-> importable, llm |-> llm],
                  out |-> run_manager(snap, n, importable, llm)]
    /\ UNCHANGED <<cacheVars, pred, news>>

ManagerNext ==
    \/ RunManager
    \/ RatioReturn

SpecManager == Init /\ [][ManagerNext]_vars

\* C30: run_manager returns a well-formed result for every outcome of its
\* engines: when predict_one and the fallback predictor both fail the
\* prediction is {symbol, signal HOLD, error} and no exception, and when
\* some or all of the ratios have no value (no statements were found, for
\* one) the rule-based summary is still produced and run_manager does not
\* raise
C30_ManagerAlwaysReturns ==
    ratio.entry = "run_manager" =>
        /\ ratio.out.status = "ok"
        /\ ratio.in.n < MinCloses =>
                ratio.out.prediction = ErrorPrediction(ratio.in.importable)
        /\ ratio.in.llm # "text" =>
                ratio.out.summary \in {"rule: liquidity limited", "rule: liquidity and solvency"}

\* the part of C30 about the prediction: whenever run_manager returns, the
\* prediction is a result or, with both predictors failing, the error dict
C30_PredictionAlwaysFormed ==
    (ratio.entry = "run_manager" /\ ratio.out.status = "ok") =>
        IF ratio.in.n < MinCloses
        THEN ratio.out.prediction = ErrorPrediction(ratio.in.importable)
        ELSE ratio.out.prediction.status = "ok"

\* run_manager raises exactly when the rule-based summary is needed and
\* one of debt to equity, debt ratio and interest coverage has no value
C30_RaisesOnSolvencyWithoutValue ==
    ratio.entry = "run_manager" =>
        (ratio.out.status = "raised"
            <=> (ratio.in.llm # "text"
                    /\ _ib_style_summary_rule(run_query(ratio.in.snap).ratios).raised))

====
